---------------------------- MODULE Spec2Model ----------------------------
(***************************************************************************)
(* Pentagos: the algorithmic art generator                                 *)
(* (media_processing/utils/algorithmic_art.py).                            *)
(*                                                                         *)
(* A raster is kept as the canvas record Image.new builds (width, height,  *)
(* background) together with the list of drawing operations applied to it, *)
(* in order: Pillow's rasterisation is a deterministic function of that    *)
(* list.  Floating point values that feed only a colour or a trigonometric *)
(* position are kept as the exact integer arguments they are computed from.*)
(* A Python exception is a result record with ok = FALSE and the exception *)
(* class in err.                                                           *)
(***************************************************************************)
EXTENDS Integers, Sequences, FiniteSets, TLC

VARIABLES
    rng,      \* state of the process-wide `random` module generator
    last,     \* the call of generate_algorithmic_art that returned last
    again,    \* the result of calling it once more with the same arguments
    threads,  \* calls of generate_algorithmic_art running concurrently
    artworks, \* the Artwork rows, by id
    profiles, \* the UserProfile rows, by user id
    queue,    \* the task messages the broker holds (unacknowledged ones too)
    running,  \* the task execution of the worker, if any
    done,     \* the outcome of the execution acknowledged last, if any
    prompts,  \* the PromptTemplate rows, by id
    library,  \* the UserPromptLibrary rows
    accounts, \* the User rows
    cache,    \* the Django cache: the rate limiter's counters
    admitted, \* per identifier, the requests let past the rate limit in its window
    inflight, \* the HTTP requests being handled, by client
    response, \* the HTTP requests answered last, with their responses
    comments, \* the Comment rows
    members,  \* the User rows with their UserProfile, by user
    likes     \* the ArtworkLike rows of an artwork and its likes_count

artVars == <<rng, last, again, threads>>
jobVars == <<artworks, profiles, queue, running, done>>
webVars == <<prompts, library, accounts, cache, admitted, inflight, response>>
siteVars == <<comments, members, likes>>
vars == <<artVars, jobVars, webVars, siteVars>>

\* what the calls of the art generator leave alone
notArt == <<jobVars, webVars, siteVars>>
\* what the task queue leaves alone, besides the process-wide generator
notJobs == <<last, again, threads, webVars, siteVars>>
\* what the HTTP views leave alone
notWeb == <<artVars, jobVars, siteVars>>
\* what the views of the site leave alone, besides the response
notSite == <<artVars, prompts, library, accounts, cache, admitted, inflight>>

---------------------------------------------------------------------------
(* Bounds of the model *)

\* canvas sizes range over -1 .. MaxSize
MaxSize == 3
\* the process-wide generator cycles through RngPeriod states
RngPeriod == 4
\* iterations executed of the long fixed loops (chaos-game points,
\* random-walk steps, spirograph points)
LoopCap == 2
\* concurrent calls in one process
NumThreads == 2
\* counts (circles, walkers, points, sources, steps) range over 0 .. MaxCount
MaxCount == 2

Min2(a, b) == IF a < b THEN a ELSE b
Max2(a, b) == IF a > b THEN a ELSE b
\* range(n) cut to the iterations the model executes
Cap(n) == Min2(Max2(n, 0), LoopCap)

---------------------------------------------------------------------------
(* Python values *)

Raise(e, w) == [ok |-> FALSE, err |-> e, where |-> w, available |-> <<>>]
Return(v) == [ok |-> TRUE, val |-> v]

\* dict.get(key, default) on a keyword-parameter bag
Get(params, key, default) ==
    IF key \in DOMAIN params THEN params[key] ELSE default

\* the bag left by dict.pop(key, default)
Pop(params, key) == [k \in (DOMAIN params) \ {key} |-> params[k]]

Kw0 == [k \in {} |-> 0]

---------------------------------------------------------------------------
(* Colours.  A colour string is the sequence of its characters. *)

HexDigits == <<"0","1","2","3","4","5","6","7","8","9",
               "a","b","c","d","e","f">>
HexUpper == <<"0","1","2","3","4","5","6","7","8","9",
              "A","B","C","D","E","F">>

IsHexDigit(c) ==
    \E i \in 1..16 : HexDigits[i] = c \/ HexUpper[i] = c

HexVal(c) ==
    (CHOOSE i \in 1..16 : HexDigits[i] = c \/ HexUpper[i] = c) - 1

\* str.lstrip('#')
RECURSIVE lstrip(_)
lstrip(s) ==
    IF s # <<>> /\ Head(s) = "#" THEN lstrip(Tail(s)) ELSE s

\* s[i:i+2] for a 0-based i
Slice2(s, i) == SubSeq(s, i + 1, Min2(i + 2, Len(s)))

\* int(s, 16) for a slice of at most two characters
Int16(s) ==
    IF s = <<>> \/ \E k \in 1..Len(s) : ~IsHexDigit(s[k])
    THEN Raise("ValueError", "int")
    ELSE Return(IF Len(s) = 1 THEN HexVal(s[1])
                ELSE 16 * HexVal(s[1]) + HexVal(s[2]))

Rgb(r, g, b) == [m |-> "rgb", c |-> <<r, g, b>>]
\* colorsys.hsv_to_rgb(num/den, s/10, v/10) scaled by 255
Hsv(num, den, s, v) == [m |-> "hsv", c |-> <<num, den, s, v>>]

_hex_to_rgb(hex_color) ==
    LET h == lstrip(hex_color)
        r == Int16(Slice2(h, 0))
        g == Int16(Slice2(h, 2))
        b == Int16(Slice2(h, 4))
    IN  IF ~r.ok THEN Raise("ValueError", "_hex_to_rgb")
        ELSE IF ~g.ok THEN Raise("ValueError", "_hex_to_rgb")
        ELSE IF ~b.ok THEN Raise("ValueError", "_hex_to_rgb")
        ELSE Return(Rgb(r.val, g.val, b.val))

startswithHash(s) == s # <<>> /\ Head(s) = "#"

\* Pillow's ImageColor.getrgb on a string that does not start with '#':
\* a colour name it knows, else ValueError
ColRedName == <<"r","e","d">>
ImageColor(s) ==
    IF s = ColRedName THEN Return(Rgb(255, 0, 0))
    ELSE Raise("ValueError", "Image.new")

---------------------------------------------------------------------------
(* The process-wide random generator.  Its state walks a cycle of          *)
(* RngPeriod states; a draw returns the state and advances it.             *)

RngNext(x) == (x + 1) % RngPeriod

\* the n raw values drawn starting in state x
DrawsFrom(x, n) == [i \in 1..n |-> (x + i - 1) % RngPeriod]

RECURSIVE RngAdvance(_, _)
RngAdvance(x, n) == IF n = 0 THEN x ELSE RngAdvance(RngNext(x), n - 1)

\* random.randint(a, b) from a raw value
randint(raw, a, b) == a + (raw * (b - a + 1)) \div RngPeriod

\* Python's a // b
FloorDiv(a, b) == IF b > 0 THEN a \div b ELSE (0 - a) \div (0 - b)

\* int(math.sqrt(n)) for n >= 0
ISqrt(n) == CHOOSE k \in 0..n : k * k <= n /\ (k + 1) * (k + 1) > n

---------------------------------------------------------------------------
(* AlgorithmicArtGenerator *)

Op(kind, at, color) == [kind |-> kind, at |-> at, color |-> color]

\* mutant: the image allocated one pixel wider than asked for
CanvasOneWider(width, height, bg) ==
    [width |-> width + 1, height |-> height, bg |-> bg, ops |-> <<>>]

Canvas(width, height, bg) ==
    [width |-> width, height |-> height, bg |-> bg, ops |-> <<>>]

Painted(self, ops) == Return([self EXCEPT !.ops = ops])

\* __init__: parse the background, then Image.new (size check, then the
\* lookup of a colour given as a string)
NewCanvas(width, height, bg_color) ==
    LET parsed == IF startswithHash(bg_color) THEN _hex_to_rgb(bg_color)
                  ELSE ImageColor(bg_color)
    IN  IF startswithHash(bg_color) /\ ~parsed.ok THEN parsed
        ELSE IF width < 0 \/ height < 0 THEN Raise("ValueError", "Image.new")
        ELSE IF ~parsed.ok THEN parsed
        ELSE Return(Canvas(width, height, parsed.val))

---------------------------------------------------------------------------
(* GeometricPatternGenerator *)

\* the colour of circle i of num_circles
CircleColor(i, num_circles, color_scheme, base_rgb) ==
    IF color_scheme = "rainbow" THEN Hsv(i, num_circles, 8, 9)
    ELSE IF color_scheme = "monochrome"
    THEN LET gray == (255 * i) \div num_circles IN Rgb(gray, gray, gray)
    ELSE IF color_scheme = "custom"
    THEN Rgb((base_rgb[1] * i) \div num_circles,
             (base_rgb[2] * i) \div num_circles,
             (base_rgb[3] * i) \div num_circles)
    ELSE Rgb(0, (255 * i) \div num_circles, 255)

\* mutant: the loop takes every other value, range(num_circles, 0, -2)
CircleRangeByTwo(num_circles) ==
    [j \in 1..Max2((num_circles + 1) \div 2, 0) |-> num_circles + 2 - 2 * j]

\* mutant: the loop runs down to i = 0, range(num_circles, -1, -1)
CircleRangeToZero(num_circles) ==
    [j \in 1..Max2(num_circles + 1, 0) |-> num_circles + 1 - j]

\* mutant: the loop runs upwards, range(1, num_circles + 1), so that the
\* outermost circle is painted last
CircleRangeAscending(num_circles) ==
    [j \in 1..Max2(num_circles, 0) |-> j]

\* the values of i the loop `for i in range(num_circles, 0, -1)` takes
CircleRange(num_circles) ==
    [j \in 1..Max2(num_circles, 0) |-> num_circles + 1 - j]

concentric_circles(self, num_circles, color_scheme, base_color) ==
    LET center_x == self.width \div 2
        center_y == self.height \div 2
        max_radius == Min2(self.width, self.height) \div 2
        is == CircleRange(num_circles)
        base == _hex_to_rgb(base_color)
        base_rgb == IF base.ok THEN base.val.c ELSE <<0, 0, 0>>
        circle(i) ==
            LET radius == (max_radius * i) \div num_circles
            IN  Op("ellipse",
                   <<center_x - radius, center_y - radius,
                     center_x + radius, center_y + radius>>,
                   CircleColor(i, num_circles, color_scheme, base_rgb))
    IN  IF is # <<>> /\ num_circles = 0
        THEN Raise("ZeroDivisionError", "concentric_circles")
        ELSE IF is # <<>> /\ color_scheme = "custom" /\ ~base.ok THEN base
        ELSE Painted(self, [j \in DOMAIN is |-> circle(is[j])])

spiral_circles(self, num_circles, turns) ==
    LET center_x == self.width \div 2
        center_y == self.height \div 2
        n == Max2(num_circles, 0)
        circle(i) ==
            Op("spiral",
               <<center_x, center_y, i, num_circles, turns,
                 Min2(self.width, self.height),
                 5 + (20 * i) \div num_circles>>,
               Hsv(i, num_circles, 8, 9))
    IN  Painted(self, [j \in 1..n |-> circle(j - 1)])

\* int(hex_size * math.sqrt(3))
HexHeight(hex_size) ==
    IF hex_size >= 0 THEN ISqrt(3 * hex_size * hex_size)
    ELSE 0 - ISqrt(3 * hex_size * hex_size)

\* the number of values of range(-1, stop)
RangeFromM1(stop) == Max2(stop + 1, 0)

HexRows(self, hex_size) ==
    RangeFromM1(FloorDiv(self.height, HexHeight(hex_size)) + 2)
HexCols(self, hex_size) ==
    RangeFromM1(FloorDiv(self.width, FloorDiv(hex_size * 3, 2)) + 2)

\* one random.random() per hexagon, row by row
hexagonal_grid(self, hex_size, ds) ==
    IF hex_size = 0 THEN Raise("ZeroDivisionError", "hexagonal_grid")
    ELSE
    LET hex_height == HexHeight(hex_size)
        step == FloorDiv(hex_size * 3, 2)
        ncols == HexCols(self, hex_size)
        n == HexRows(self, hex_size) * ncols
        hexagon(k) ==
            LET row == ((k - 1) \div ncols) - 1
                col == ((k - 1) % ncols) - 1
                x == col * step
                y == row * hex_height
                     + (IF col % 2 = 1 THEN FloorDiv(hex_height, 2) ELSE 0)
            IN  Op("polygon", <<x, y, hex_size>>, Hsv(ds[k], RngPeriod, 7, 9))
    IN  Painted(self, [k \in 1..n |-> hexagon(k)])

hexagonal_grid_draws(self, hex_size) ==
    IF hex_size = 0 THEN 0
    ELSE HexRows(self, hex_size) * HexCols(self, hex_size)

---------------------------------------------------------------------------
(* FractalGenerator *)

\* the chaos game plots 50000 points
SierpinskiPoints == 50000

\* random.choice of a list of three from a raw value
choice3(raw, xs) == xs[1 + (raw * 3) \div RngPeriod]

RECURSIVE ChaosGame(_, _, _, _, _)
ChaosGame(current, i, n, corners, ds) ==
    IF i = n THEN <<>>
    ELSE LET target == choice3(ds[3 + i], corners)
             moved == <<(current[1] + target[1]) \div 2,
                        (current[2] + target[2]) \div 2>>
         IN  <<Op("point", moved, Hsv(i % 1000, 1000, 8, 9))>>
             \o ChaosGame(moved, i + 1, n, corners, ds)

sierpinski_triangle_draws(self) == 2 + Cap(SierpinskiPoints)

sierpinski_triangle(self, depth, ds) ==
    LET p1 == <<self.width \div 2, 50>>
        p2 == <<50, self.height - 50>>
        p3 == <<self.width - 50, self.height - 50>>
        current == <<randint(ds[1], 0, self.width),
                     randint(ds[2], 0, self.height)>>
    IN  Painted(self, ChaosGame(current, 0, Cap(SierpinskiPoints),
                                <<p1, p2, p3>>, ds))

\* floating point kept to three decimal places
FixedPoint == 1000
\* HTTP clients, of one request each
NumClients == 3
\* REMOTE_ADDR of the clients
Addresses == {"10.0.0.1", "10.0.0.2"}
\* requests per identifier and minute
RateLimit == 60
\* the counter of 10.0.0.1 where its window is not new: all requests of the
\* window but one have been answered
WarmCount == RateLimit - 1

\* the value of `iteration` when the while loop ends
RECURSIVE Escape(_, _, _, _, _, _)
Escape(zr, zi, cr, ci, iteration, max_iter) ==
    IF zr * zr + zi * zi <= 4 * FixedPoint * FixedPoint /\ iteration < max_iter
    THEN Escape((zr * zr - zi * zi) \div FixedPoint + cr,
                (2 * zr * zi) \div FixedPoint + ci,
                cr, ci, iteration + 1, max_iter)
    ELSE iteration

mandelbrot_set(self, max_iter) ==
    LET w == self.width
        h == self.height
        pixel(x, y) ==
            LET real == ((10 * x - 7 * w) * 2 * FixedPoint) \div (5 * w)
                imag == ((2 * y - h) * 2 * FixedPoint) \div h
                iteration == Escape(0, 0, real, imag, 0, max_iter)
            IN  Op("point", <<x, y>>,
                   IF iteration = max_iter THEN Rgb(0, 0, 0)
                   ELSE Hsv(iteration, max_iter, 8, 9))
    IN  Painted(self, [k \in 1..(w * h) |->
                         pixel((k - 1) \div h, (k - 1) % h)])

\* the segments _draw_branch draws, in order; a branch is named by its
\* place in the tree (the trunk 1, the branches of p: 2p and 2p + 1)
RECURSIVE _draw_branch(_, _, _, _)
_draw_branch(path, angle, depth, branch_angle) ==
    IF depth = 0 THEN <<>>
    ELSE <<Op("line", <<path, angle, depth, Max2(1, depth \div 2)>>,
              Hsv(9 - depth, 30, 7, 7))>>
         \o _draw_branch(2 * path, angle - branch_angle, depth - 1, branch_angle)
         \o _draw_branch(2 * path + 1, angle + branch_angle, depth - 1,
                        branch_angle)

\* a negative depth never reaches 0: the recursion ends at Python's
\* recursion limit
recursive_tree(self, depth, angle) ==
    IF depth < 0 THEN Raise("RecursionError", "_draw_branch")
    ELSE Painted(self, _draw_branch(1, 0 - 90, depth, angle))

---------------------------------------------------------------------------
(* GenerativePatternGenerator *)

\* mutant: the new coordinate is not clamped
ClampNot(v, hi) == v

Clamp(v, hi) == Max2(0, Min2(hi, v))

\* step k (from 0) of the double loop moves walker k % num_walkers
RECURSIVE Walk(_, _, _, _, _, _)
Walk(self, walkers, k, n, num_walkers, ds) ==
    IF k = n THEN <<>>
    ELSE LET i == k % num_walkers
             x == walkers[i + 1][1]
             y == walkers[i + 1][2]
             dx == randint(ds[2 * k + 1], 0 - 2, 2)
             dy == randint(ds[2 * k + 2], 0 - 2, 2)
             new_x == Clamp(x + dx, self.width - 1)
             new_y == Clamp(y + dy, self.height - 1)
         IN  <<Op("line", <<x, y, new_x, new_y>>, Hsv(i, num_walkers, 7, 9))>>
             \o Walk(self, [walkers EXCEPT ![i + 1] = <<new_x, new_y>>],
                     k + 1, n, num_walkers, ds)

random_walk_draws(self, num_walkers, steps) ==
    2 * Max2(num_walkers, 0) * Cap(steps)

random_walk(self, num_walkers, steps, ds) ==
    LET nw == Max2(num_walkers, 0)
        walkers == [i \in 1..nw |-> <<self.width \div 2, self.height \div 2>>]
    IN  Painted(self, Walk(self, walkers, 0, nw * Cap(steps), nw, ds))

\* the index (from 0) of the first seed at the least squared distance
ClosestSeed(seeds, x, y) ==
    LET dist(i) == (x - seeds[i][1]) * (x - seeds[i][1])
                   + (y - seeds[i][2]) * (y - seeds[i][2])
    IN  IF seeds = <<>> THEN 0
        ELSE (CHOOSE i \in DOMAIN seeds :
                 /\ \A j \in DOMAIN seeds : dist(i) <= dist(j)
                 /\ \A j \in 1..(i - 1) : dist(j) > dist(i)) - 1

voronoi_diagram_draws(self, num_points) == 2 * Max2(num_points, 0)

voronoi_diagram(self, num_points, ds) ==
    LET w == self.width
        h == self.height
        np == Max2(num_points, 0)
        seeds == [i \in 1..np |-> <<randint(ds[2 * i - 1], 0, w),
                                    randint(ds[2 * i], 0, h)>>]
        colors == [i \in 1..np |-> Hsv(i - 1, num_points, 7, 9)]
        pixel(x, y) ==
            Op("pixel", <<x, y>>, colors[ClosestSeed(seeds, x, y) + 1])
        marker(i) ==
            Op("ellipse", <<seeds[i][1] - 3, seeds[i][2] - 3,
                            seeds[i][1] + 3, seeds[i][2] + 3>>, Rgb(0, 0, 0))
    IN  IF w * h > 0 /\ colors = <<>>
        THEN Raise("IndexError", "voronoi_diagram")
        ELSE Painted(self,
                 [k \in 1..(w * h) |-> pixel((k - 1) \div h, (k - 1) % h)]
                 \o [i \in 1..np |-> marker(i)])

wave_interference_draws(self, num_sources) == 2 * Max2(num_sources, 0)

\* the hue of a pixel is a function of its place and of the sources
wave_interference(self, num_sources, ds) ==
    LET w == self.width
        h == self.height
        ns == Max2(num_sources, 0)
        sources == [i \in 1..(2 * ns) |->
                      IF i % 2 = 1
                      THEN randint(ds[i], w \div 4, (3 * w) \div 4)
                      ELSE randint(ds[i], h \div 4, (3 * h) \div 4)]
        pixel(x, y) ==
            Op("pixel", <<x, y>>,
               [m |-> "wave", c |-> <<x, y, num_sources>> \o sources])
    IN  IF w * h > 0 /\ 2 * num_sources = 0
        THEN Raise("ZeroDivisionError", "wave_interference")
        ELSE Painted(self,
                 [k \in 1..(w * h) |-> pixel((k - 1) \div h, (k - 1) % h)])

---------------------------------------------------------------------------
(* SpirographGenerator *)

\* point i is a function of i, R, r and d; a segment joins points i, i + 1
spirograph(self, R, r, d, rotations) ==
    LET center_x == self.width \div 2
        center_y == self.height \div 2
        steps == rotations * 360
        n == Cap(steps)
        segment(i) ==
            Op("line", <<center_x, center_y, R, r, d, i>>,
               Hsv(i, steps, 8, 9))
    IN  IF n > 0 /\ r = 0
        THEN Raise("ZeroDivisionError", "spirograph")
        ELSE Painted(self, [j \in 1..(n - 1) |-> segment(j - 1)])

---------------------------------------------------------------------------
(* Pattern catalog and dispatch *)

ColWhite == <<"#","F","F","F","F","F","F">>
ColRed == <<"#","F","F","0","0","0","0">>

\* PATTERN_CATALOG: for each pattern id, its category and the default of
\* each parameter of its schema
PATTERN_CATALOG ==
    [concentric_circles |->
        [category |-> "geometric",
         params |-> [num_circles |-> 20, color_scheme |-> "rainbow",
                     base_color |-> ColRed, bg_color |-> ColWhite]],
     spiral_circles |->
        [category |-> "geometric",
         params |-> [num_circles |-> 50, turns |-> 3]],
     hexagonal_grid |->
        [category |-> "geometric", params |-> [hex_size |-> 30]],
     sierpinski_triangle |->
        [category |-> "fractal", params |-> [depth |-> 7]],
     mandelbrot_set |->
        [category |-> "fractal", params |-> [max_iter |-> 100]],
     recursive_tree |->
        [category |-> "fractal", params |-> [depth |-> 10, angle |-> 25]],
     random_walk |->
        [category |-> "generative",
         params |-> [num_walkers |-> 5, steps |-> 2000]],
     voronoi_diagram |->
        [category |-> "generative", params |-> [num_points |-> 20]],
     wave_interference |->
        [category |-> "generative", params |-> [num_sources |-> 4]],
     spirograph |->
        [category |-> "spirograph",
         params |-> [R |-> 200, r |-> 50, d |-> 80, rotations |-> 20]]]

\* mutant: a catalog entry without a generator
GeneratorKeysShort ==
    <<"concentric_circles", "spiral_circles", "hexagonal_grid",
      "sierpinski_triangle", "mandelbrot_set", "recursive_tree",
      "random_walk", "voronoi_diagram", "spirograph">>

\* list(generators.keys())
GeneratorKeys ==
    <<"concentric_circles", "spiral_circles", "hexagonal_grid",
      "sierpinski_triangle", "mandelbrot_set", "recursive_tree",
      "random_walk", "voronoi_diagram", "wave_interference", "spirograph">>

IsGenerator(pattern_type) ==
    \E i \in DOMAIN GeneratorKeys : GeneratorKeys[i] = pattern_type

UnknownPattern ==
    [Raise("ValueError", "generate_algorithmic_art")
        EXCEPT !.available = GeneratorKeys]

\* generators[pattern_type]() on the canvas its constructor built
RunGenerator(pattern_type, self, base_color, params, ds) ==
    CASE pattern_type = "concentric_circles" ->
            concentric_circles(self, Get(params, "num_circles", 20),
                               Get(params, "color_scheme", "rainbow"),
                               base_color)
      [] pattern_type = "spiral_circles" ->
            spiral_circles(self, Get(params, "num_circles", 50),
                           Get(params, "turns", 3))
      [] pattern_type = "hexagonal_grid" ->
            hexagonal_grid(self, Get(params, "hex_size", 30), ds)
      [] pattern_type = "sierpinski_triangle" ->
            sierpinski_triangle(self, Get(params, "depth", 7), ds)
      [] pattern_type = "mandelbrot_set" ->
            mandelbrot_set(self, Get(params, "max_iter", 100))
      [] pattern_type = "recursive_tree" ->
            recursive_tree(self, Get(params, "depth", 10),
                           Get(params, "angle", 25))
      [] pattern_type = "random_walk" ->
            random_walk(self, Get(params, "num_walkers", 5),
                        Get(params, "steps", 2000), ds)
      [] pattern_type = "voronoi_diagram" ->
            voronoi_diagram(self, Get(params, "num_points", 20), ds)
      [] pattern_type = "wave_interference" ->
            wave_interference(self, Get(params, "num_sources", 4), ds)
      [] pattern_type = "spirograph" ->
            spirograph(self, Get(params, "R", 200), Get(params, "r", 50),
                       Get(params, "d", 80), Get(params, "rotations", 20))

\* the draws of the process-wide generator the generator makes
GeneratorDraws(pattern_type, self, params) ==
    CASE pattern_type = "hexagonal_grid" ->
            hexagonal_grid_draws(self, Get(params, "hex_size", 30))
      [] pattern_type = "sierpinski_triangle" ->
            sierpinski_triangle_draws(self)
      [] pattern_type = "random_walk" ->
            random_walk_draws(self, Get(params, "num_walkers", 5),
                              Get(params, "steps", 2000))
      [] pattern_type = "voronoi_diagram" ->
            voronoi_diagram_draws(self, Get(params, "num_points", 20))
      [] pattern_type = "wave_interference" ->
            wave_interference_draws(self, Get(params, "num_sources", 4))
      [] OTHER -> 0

\* the canvas the generator's constructor builds
CanvasOf(size, params) ==
    NewCanvas(size, size, Get(params, "bg_color", ColWhite))

\* mutant: an unknown pattern type falls back to the first generator
generate_algorithmic_art_fallback(pattern_type, size, params, ds) ==
    LET bg_color == Get(params, "bg_color", ColWhite)
        base_color == Get(params, "base_color", ColRed)
        rest == Pop(Pop(params, "bg_color"), "base_color")
        canvas == NewCanvas(size, size, bg_color)
    IN  IF ~canvas.ok THEN canvas
        ELSE RunGenerator(IF IsGenerator(pattern_type) THEN pattern_type
                          ELSE GeneratorKeys[1],
                          canvas.val, base_color, rest, ds)

generate_algorithmic_art(pattern_type, size, params, ds) ==
    LET bg_color == Get(params, "bg_color", ColWhite)
        base_color == Get(params, "base_color", ColRed)
        rest == Pop(Pop(params, "bg_color"), "base_color")
        canvas == NewCanvas(size, size, bg_color)
    IN  IF ~IsGenerator(pattern_type) THEN UnknownPattern
        ELSE IF ~canvas.ok THEN canvas
        ELSE RunGenerator(pattern_type, canvas.val, base_color, rest, ds)

\* how many values the call draws from the process-wide generator
Draws(pattern_type, size, params) ==
    LET canvas == CanvasOf(size, params)
    IN  IF ~IsGenerator(pattern_type) \/ ~canvas.ok THEN 0
        ELSE GeneratorDraws(pattern_type, canvas.val, params)

---------------------------------------------------------------------------
(* Inputs *)

Sizes == (0 - 1)..MaxSize
Counts == 0..MaxCount

ColBlack == <<"#","0","0","0","0","0","0">>
ColBlue == <<"#","0","0","8","0","f","F">>
ColShort == <<"#","F","F","0","0">>
ColFive == <<"#","F","F","F","F","F">>
ColLong == <<"#","F","F","0","0","0","0","1">>
ColNonHex == <<"#","G","G","0","0","0","0">>
ColNoHash == <<"F","F","0","0","0","0">>
ColEmpty == <<>>

ColorStrings ==
    {ColWhite, ColRed, ColBlack, ColBlue, ColShort, ColFive, ColLong,
     ColNonHex, ColNoHash, ColRedName, ColEmpty}

\* '#' followed by exactly six hex digits
WellFormed(s) ==
    /\ Len(s) = 7
    /\ s[1] = "#"
    /\ \A k \in 2..7 : IsHexDigit(s[k])

ColorSchemes == {"rainbow", "monochrome", "custom", "blue", "sepia"}

UnknownIds == {"not_a_real_pattern", "plasma"}
PatternIds == DOMAIN PATTERN_CATALOG \cup UnknownIds

\* the bags with at most one value for each of the keys of `choices`
RECURSIVE BagsOver(_, _)
BagsOver(keys, choices) ==
    IF keys = {} THEN {Kw0}
    ELSE LET k == CHOOSE x \in keys : TRUE
             rest == BagsOver(keys \ {k}, choices)
         IN  rest \cup {(k :> v) @@ b : v \in choices[k], b \in rest}

\* colour parameters: any bg_color or any base_color for the pattern that
\* reads both, a few bg_color values for the others
ColorBags ==
    BagsOver({"bg_color"}, [bg_color |-> ColorStrings])
    \cup BagsOver({"base_color"}, [base_color |-> ColorStrings])
BgBags ==
    BagsOver({"bg_color"}, [bg_color |-> {ColBlack, ColLong, ColNonHex}])

\* pattern-specific keyword parameters
OwnBags(pattern_type) ==
    CASE pattern_type = "concentric_circles" ->
            BagsOver({"num_circles", "color_scheme"},
                     [num_circles |-> Counts, color_scheme |-> ColorSchemes])
      [] pattern_type = "spiral_circles" ->
            BagsOver({"num_circles", "turns"},
                     [num_circles |-> Counts, turns |-> {1}])
      [] pattern_type = "hexagonal_grid" ->
            BagsOver({"hex_size"}, [hex_size |-> (0 - 1)..MaxCount])
      [] pattern_type = "sierpinski_triangle" ->
            BagsOver({"depth"}, [depth |-> {0, 1}])
      [] pattern_type = "mandelbrot_set" ->
            BagsOver({"max_iter"}, [max_iter |-> Counts])
      [] pattern_type = "recursive_tree" ->
            BagsOver({"depth", "angle"},
                     [depth |-> (0 - 1)..MaxCount, angle |-> {30}])
      [] pattern_type = "random_walk" ->
            BagsOver({"num_walkers", "steps"},
                     [num_walkers |-> Counts, steps |-> Counts])
      [] pattern_type = "voronoi_diagram" ->
            BagsOver({"num_points"}, [num_points |-> Counts])
      [] pattern_type = "wave_interference" ->
            BagsOver({"num_sources"}, [num_sources |-> Counts])
      [] pattern_type = "spirograph" ->
            BagsOver({"R", "r", "d", "rotations"},
                     [R |-> {5}, r |-> {0, 2}, d |-> {3},
                      rotations |-> {0, 1}])
      [] OTHER ->
            BagsOver({"r", "num_circles"}, [r |-> {0}, num_circles |-> {0}])

ParamBags(pattern_type) ==
    {own @@ col :
        own \in OwnBags(pattern_type),
        col \in IF pattern_type = "concentric_circles"
                THEN ColorBags ELSE BgBags}

---------------------------------------------------------------------------
(* Sequential calls: a caller invokes generate_algorithmic_art, may invoke *)
(* it once more with the same arguments, and takes the result away.        *)

Call(pattern_type, size, params, x) ==
    [pattern_type |-> pattern_type, size |-> size, params |-> params,
     result |-> generate_algorithmic_art(pattern_type, size, params,
                    DrawsFrom(x, Draws(pattern_type, size, params)))]

Init ==
    /\ rng \in 0..(RngPeriod - 1)
    /\ last = <<>>
    /\ again = <<>>
    /\ threads = [t \in 1..NumThreads |->
                    [pc |-> "idle", call |-> <<>>, seed |-> 0,
                     drawn |-> <<>>, result |-> <<>>]]
    /\ artworks = <<>>
    /\ profiles = [u \in {1} |-> [exists |-> TRUE, avatar |-> <<>>]]
    /\ queue = {}
    /\ running = <<>>
    /\ done = <<>>
    /\ prompts = <<>>
    /\ library = {}
    /\ accounts = {}
    /\ cache \in {<<>>, [identifier \in {"10.0.0.1"} |-> WarmCount]}
    /\ admitted = [identifier \in Addresses |->
                     IF identifier \in DOMAIN cache THEN cache[identifier]
                     ELSE 0]
    /\ inflight = [client \in 1..NumClients |-> [pc |-> "idle", count |-> 0]]
    /\ response = <<>>
    /\ comments = {}
    /\ members = [user \in {"alice", "bob"} |->
                    [username |-> user,
                     email |-> IF user = "alice" THEN "a@x.org" ELSE "b@x.org",
                     bio |-> ""]]
    /\ likes = [rows |-> [user \in {"alice", "bob"} |-> 0], likes_count |-> 0]

Generate(pattern_type, size, params) ==
    /\ last = <<>>
    /\ last' = <<Call(pattern_type, size, params, rng)>>
    /\ rng' = RngAdvance(rng, Draws(pattern_type, size, params))
    /\ UNCHANGED <<again, threads, notArt>>

Regenerate ==
    /\ last # <<>>
    /\ again = <<>>
    /\ LET c == last[1]
       IN  /\ again' = <<Call(c.pattern_type, c.size, c.params, rng)>>
           /\ rng' = RngAdvance(rng, Draws(c.pattern_type, c.size, c.params))
    /\ UNCHANGED <<last, threads, notArt>>

Handoff ==
    /\ last # <<>>
    /\ last' = <<>>
    /\ again' = <<>>
    /\ UNCHANGED <<rng, threads, notArt>>

Next ==
    \/ \E pattern_type \in PatternIds, size \in Sizes :
         \E params \in ParamBags(pattern_type) :
            Generate(pattern_type, size, params)
    \/ Regenerate
    \/ Handoff

Spec == Init /\ [][Next]_vars

---------------------------------------------------------------------------
(* Concurrent calls in one process: each call draws from the process-wide  *)
(* generator one value at a time, and the calls' draws interleave.         *)

ConcCall(pattern_type, size, params) ==
    [pattern_type |-> pattern_type, size |-> size, params |-> params]

ConcCalls ==
    {ConcCall("random_walk", MaxSize,
              ("num_walkers" :> 1) @@ ("steps" :> 1)),
     ConcCall("voronoi_diagram", 1, "num_points" :> 1),
     ConcCall("wave_interference", MaxSize, "num_sources" :> 1),
     ConcCall("concentric_circles", MaxSize, "num_circles" :> 1),
     ConcCall("not_a_real_pattern", MaxSize, Kw0)}

CallDraws(c) == Draws(c.pattern_type, c.size, c.params)
CallResult(c, ds) ==
    generate_algorithmic_art(c.pattern_type, c.size, c.params, ds)

Start(t, c) ==
    /\ threads[t].pc = "idle"
    /\ threads' = [threads EXCEPT ![t] =
                     [pc |-> "running", call |-> <<c>>, seed |-> rng,
                      drawn |-> <<>>, result |-> <<>>]]
    /\ UNCHANGED <<rng, last, again, notArt>>

Draw(t) ==
    /\ threads[t].pc = "running"
    /\ Len(threads[t].drawn) < CallDraws(threads[t].call[1])
    /\ threads' = [threads EXCEPT ![t].drawn = Append(@, rng)]
    /\ rng' = RngNext(rng)
    /\ UNCHANGED <<last, again, notArt>>

Finish(t) ==
    /\ threads[t].pc = "running"
    /\ Len(threads[t].drawn) = CallDraws(threads[t].call[1])
    /\ threads' = [threads EXCEPT
                     ![t].pc = "done",
                     ![t].result =
                        <<CallResult(threads[t].call[1], threads[t].drawn)>>]
    /\ UNCHANGED <<rng, last, again, notArt>>

Collect(t) ==
    /\ threads[t].pc = "done"
    /\ threads' = [threads EXCEPT ![t] =
                     [pc |-> "idle", call |-> <<>>, seed |-> 0,
                      drawn |-> <<>>, result |-> <<>>]]
    /\ UNCHANGED <<rng, last, again, notArt>>

NextConc ==
    \E t \in 1..NumThreads :
        \/ \E c \in ConcCalls : Start(t, c)
        \/ Draw(t)
        \/ Finish(t)
        \/ Collect(t)

SpecConc == Init /\ [][NextConc]_vars

---------------------------------------------------------------------------
(* Celery tasks (media_processing/tasks.py).  A message stays with the     *)
(* broker until the worker acknowledges it after the task has ended        *)
(* (task_acks_late); a worker lost before that leaves it to be delivered   *)
(* again (task_reject_on_worker_lost).  Executions do not overlap.  The    *)
(* model follows one artwork from its creation on: generate_artwork        *)
(* touches no other row.                                                   *)

\* @shared_task(bind=True, max_retries=3, ...)
max_retries == 3
Message(task, args, retries) ==
    [task |-> task, args |-> args, retries |-> retries]

NoOutcome == [kind |-> "none", status |-> "", message |-> ""]
\* the task returned a result dict
Returned_(status, message) ==
    [kind |-> "returned", status |-> status, message |-> message]
\* the task ended by raising the Retry of self.retry
Retried(message) == [kind |-> "retry", status |-> "", message |-> message]
\* the task ended by raising another exception

None == [none |-> TRUE]

IsDigit(c) == c \in {"0", "1", "2", "3", "4", "5", "6", "7", "8", "9"}

\* size_str.split('x')
RECURSIVE SplitX(_)
SplitX(s) ==
    IF s = <<>> THEN << <<>> >>
    ELSE LET rest == SplitX(Tail(s))
         IN  IF Head(s) = "x" THEN << <<>> >> \o rest
             ELSE << <<Head(s)>> \o Head(rest) >> \o Tail(rest)

\* int(field) of a string of decimal digits
RECURSIVE IntOf(_)
IntOf(f) ==
    IF f = <<>> THEN 0
    ELSE 10 * IntOf(SubSeq(f, 1, Len(f) - 1)) + HexVal(f[Len(f)])

IsInt(f) == f # <<>> /\ \A i \in DOMAIN f : IsDigit(f[i])

\* the size _generate_algorithmic_art takes from artwork.image_size
ParseSize(image_size) ==
    LET size_str == IF image_size = <<>>
                    THEN <<"1","0","2","4","x","1","0","2","4">>
                    ELSE image_size
        fields == SplitX(size_str)
    IN  IF Len(fields) = 2 /\ IsInt(fields[1]) /\ IsInt(fields[2])
        THEN IntOf(fields[1])
        ELSE 1024

\* what the external image service does: an image, nothing, or a failure
\* what the AI provider does: an image, nothing, an exception with a short
\* or with a long message
AiOutcomes == {"image", "none", "raise", "raise_long"}

AiPicture ==
    [Canvas(2, 2, Rgb(0, 0, 0)) EXCEPT
        !.ops = <<Op("ai", <<>>, Rgb(0, 0, 0))>>]

_generate_ai_image(artwork, out) ==
    CASE out = "image" -> Return(AiPicture)
      [] out = "none" -> Return(None)
      [] OTHER -> Raise("Exception", "_generate_ai_image")

_generate_algorithmic_art(artwork, ds) ==
    LET algorithm == artwork.algorithm_name
        params == artwork.algorithm_params
        size == ParseSize(artwork.image_size)
    IN  IF algorithm \notin DOMAIN PATTERN_CATALOG
        THEN Raise("ValueError", "_generate_algorithmic_art")
        ELSE generate_algorithmic_art(algorithm, size, params, ds)

_generate_algorithmic_art_draws(artwork) ==
    IF artwork.algorithm_name \notin DOMAIN PATTERN_CATALOG THEN 0
    ELSE Draws(artwork.algorithm_name, ParseSize(artwork.image_size),
               artwork.algorithm_params)

\* the blending of the two images, the algorithmic one resized to the other
Blend(ai_image, algo_image) ==
    IF ~ai_image.ok THEN ai_image
    ELSE IF ~algo_image.ok THEN algo_image
    ELSE IF ai_image.val = None
    THEN Raise("AttributeError", "_generate_hybrid_art")
    ELSE Return([ai_image.val EXCEPT
                    !.ops = @ \o <<Op("blend",
                                      <<algo_image.val.width,
                                        algo_image.val.height>>,
                                      algo_image.val.bg)>>])

_generate_hybrid_art(artwork, out, ds) ==
    Blend(_generate_ai_image(artwork, out),
          _generate_algorithmic_art(artwork, ds))

\* image.save(img_io, format='JPEG'): an empty image cannot be written
_save_artwork_image(image) ==
    IF image.width = 0 \/ image.height = 0
    THEN Raise("ValueError", "_save_artwork_image")
    ELSE Return(image)

\* the routing by generation type
ResultImage(artwork, out, ds) ==
    CASE artwork.generation_type = "ai_prompt" ->
            _generate_ai_image(artwork, out)
      [] artwork.generation_type = "algorithmic" ->
            _generate_algorithmic_art(artwork, ds)
      [] artwork.generation_type = "hybrid" ->
            _generate_hybrid_art(artwork, out, ds)
      [] OTHER -> Raise("ValueError", "generate_artwork")

\* `if result_image:` and the saving of the image
SaveIfImage(result_image) ==
    IF ~result_image.ok THEN result_image
    ELSE IF result_image.val = None
    THEN Raise("Exception", "generate_artwork")
    ELSE _save_artwork_image(result_image.val)

GenerateAndSave(artwork, out, ds) ==
    SaveIfImage(ResultImage(artwork, out, ds))

\* the draws of the process-wide generator one execution makes
GenerationDraws(artwork, out) ==
    CASE artwork.generation_type = "algorithmic" ->
            _generate_algorithmic_art_draws(artwork)
      [] artwork.generation_type = "hybrid"
            /\ out \notin {"raise", "raise_long"} ->
            _generate_algorithmic_art_draws(artwork)
      [] OTHER -> 0

\* what a client may post to create an artwork
ArtworkRequest(generation_type, algorithm_name, params, image_size) ==
    [generation_type |-> generation_type, algorithm_name |-> algorithm_name,
     algorithm_params |-> params, image_size |-> image_size]

ArtworkRequests ==
    {ArtworkRequest("ai_prompt", "", Kw0, <<"2","x","2">>),
     ArtworkRequest("algorithmic", "concentric_circles", Kw0,
                    <<"b","i","g">>),
     ArtworkRequest("algorithmic", "voronoi_diagram", "num_points" :> 1,
                    <<"1","x","1">>),
     ArtworkRequest("algorithmic", "spirograph", "r" :> 0,
                    <<"2","x","2">>),
     ArtworkRequest("algorithmic", "plasma", Kw0, <<"2","x","2">>),
     ArtworkRequest("algorithmic", "concentric_circles", Kw0,
                    <<"0","x","0">>),
     ArtworkRequest("hybrid", "concentric_circles", Kw0, <<>>),
     ArtworkRequest("ai_variation", "", Kw0, <<"2","x","2">>)}

\* ArtworkViewSet.perform_create: the row is saved with the default status
\* and the task is sent with the row's id
perform_create(req) ==
    /\ artworks = <<>>
    /\ artworks' = Append(artworks,
            [exists |-> TRUE, status |-> "queued", error_message |-> "",
             error_length |-> 0, image |-> FALSE, request |-> req,
             attempts |-> 0, lost |-> FALSE])
    /\ queue' = queue \cup
            {Message("generate_artwork", <<Len(artworks) + 1>>, 0)}
    /\ UNCHANGED <<rng, profiles, running, done, notJobs>>

\* ArtworkViewSet.perform_destroy
perform_destroy(id) ==
    /\ id \in DOMAIN artworks
    /\ artworks[id].exists
    /\ artworks' = [artworks EXCEPT ![id].exists = FALSE, ![id].image = FALSE]
    /\ UNCHANGED <<rng, profiles, queue, running, done, notJobs>>

\* the worker takes a message; it stays with the broker until acknowledged
Deliver(m) ==
    /\ running = <<>>
    /\ m \in queue
    /\ running' = <<[msg |-> m, pc |-> "received", outcome |-> NoOutcome]>>
    /\ UNCHANGED <<rng, artworks, profiles, queue, done, notJobs>>

\* mutant: an execution puts the artwork back in the queued state
StatusAtStartQueued == "queued"

\* the status an execution sets when it starts
StatusAtStart == "processing"

\* Two fields of a row record its history and are no columns of the table:
\* attempts counts the executions that fetched the row, up to
\* max_retries + 2, and lost tells whether a worker was lost while it held
\* a message for the row.
NoteAttempt(attempts) == Min2(attempts + 1, max_retries + 2)

\* generate_artwork up to its first save: fetch the row, mark it processing
generate_artwork_start ==
    /\ running # <<>>
    /\ running[1].pc = "received"
    /\ running[1].msg.task = "generate_artwork"
    /\ LET id == running[1].msg.args[1]
       IN  IF id \in DOMAIN artworks /\ artworks[id].exists
           THEN /\ artworks' = [artworks EXCEPT
                                   ![id].status = StatusAtStart,
                                   ![id].attempts = NoteAttempt(@)]
                /\ running' = <<[running[1] EXCEPT !.pc = "processing"]>>
           ELSE /\ running' = <<[running[1] EXCEPT
                                    !.pc = "finished",
                                    !.outcome = Returned_("error",
                                                    "Artwork not found")]>>
                /\ UNCHANGED artworks
    /\ UNCHANGED <<rng, profiles, queue, done, notJobs>>

\* error_message is cut to this many characters
error_limit == 500
\* the length of a provider's message that is longer than that, and of a
\* message within the limit, "Image generation returned None"
LongMessage == error_limit + 1
ShortMessage == Len("Image generation returned None")

\* len(str(exc))
MessageLength(out, result) ==
    IF out = "raise_long" /\ result.where = "_generate_ai_image"
    THEN LongMessage
    ELSE ShortMessage

\* mutant: the message is stored whole
TruncatedNot(length) == length

\* len(str(exc)[:500])
Truncated(length) == Min2(length, error_limit)

\* mutant: one retry more than max_retries
RetriesRemainOneMore(m) == m.retries <= max_retries

\* self.request.retries < self.max_retries
RetriesRemain(m) == m.retries < max_retries

\* the end of generate_artwork, given what generating and saving gave:
\* mark the row completed; or, on an exception, mark it failed and retry
\* while retries remain
generate_artwork_end(m, id, out, result) ==
    IF result.ok
    THEN /\ artworks' = [artworks EXCEPT
                            ![id].exists = TRUE,
                            ![id].image = TRUE,
                            ![id].status = "completed",
                            ![id].error_message = "",
                            ![id].error_length = 0]
         /\ running' = <<[running[1] EXCEPT
                             !.pc = "finished",
                             !.outcome = Returned_("success", "")]>>
         /\ UNCHANGED queue
    ELSE /\ artworks' =
              IF artworks[id].exists
              THEN [artworks EXCEPT
                       ![id].status = "failed",
                       ![id].error_message = result.err,
                       ![id].error_length =
                            Truncated(MessageLength(out, result))]
              ELSE artworks
         /\ IF RetriesRemain(m)
            THEN /\ queue' = queue \cup
                      {Message(m.task, m.args, m.retries + 1)}
                 /\ running' = <<[running[1] EXCEPT
                                     !.pc = "finished",
                                     !.outcome = Retried(result.err)]>>
            ELSE /\ running' = <<[running[1] EXCEPT
                                     !.pc = "finished",
                                     !.outcome = Returned_("error",
                                                           result.err)]>>
                 /\ UNCHANGED queue

\* generate_artwork from its first save to its end
generate_artwork_run(out) ==
    /\ running # <<>>
    /\ running[1].pc = "processing"
    /\ rng' = RngAdvance(rng,
                 GenerationDraws(artworks[running[1].msg.args[1]].request,
                                 out))
    /\ generate_artwork_end(
            running[1].msg, running[1].msg.args[1], out,
            GenerateAndSave(
                artworks[running[1].msg.args[1]].request, out,
                DrawsFrom(rng, GenerationDraws(
                    artworks[running[1].msg.args[1]].request, out))))
    /\ UNCHANGED <<profiles, done, notJobs>>

\* the task has ended: the worker acknowledges the message
Acknowledge ==
    /\ running # <<>>
    /\ running[1].pc = "finished"
    /\ queue' = queue \ {running[1].msg}
    /\ done' = <<[msg |-> running[1].msg, outcome |-> running[1].outcome]>>
    /\ running' = <<>>
    /\ UNCHANGED <<rng, artworks, profiles, notJobs>>

\* the worker process is lost: the unacknowledged message is delivered again
WorkerLost ==
    /\ running # <<>>
    /\ running' = <<>>
    /\ artworks' =
         IF /\ running[1].msg.task = "generate_artwork"
            /\ running[1].msg.args[1] \in DOMAIN artworks
         THEN [artworks EXCEPT ![running[1].msg.args[1]].lost = TRUE]
         ELSE artworks
    /\ UNCHANGED <<rng, profiles, queue, done, notJobs>>

NextArtwork ==
    \/ \E req \in ArtworkRequests : perform_create(req)
    \/ \E id \in DOMAIN artworks : perform_destroy(id)
    \/ \E m \in queue : Deliver(m)
    \/ generate_artwork_start
    \/ \E out \in AiOutcomes : generate_artwork_run(out)
    \/ Acknowledge
    \/ WorkerLost

SpecArtwork == Init /\ [][NextArtwork]_vars

---------------------------------------------------------------------------
(* generate_avatar_for_user, sent by UserProfileViewSet.generate_avatar    *)

\* what generate_with_huggingface does: an image, nothing, or a failure
HuggingfaceOutcomes == {"image", "none", "raise"}
\* what the storage does: both saves succeed, profile.avatar.save raises,
\* or profile.save raises after the avatar has been saved
SaveOutcomes == {"ok", "avatar_raises", "profile_raises"}

\* texts a client submits as prompt or comment
Texts == {"", " ", "a fox", "damn"}

\* str.strip()
Strip(text) == IF text = " " THEN "" ELSE text

\* what the classifier or the local filter does with a text that is not
\* empty
ModerationOutcomes == {"allowed", "blocked", "raises"}

\* moderate_text: an empty text is allowed without being looked at
moderate_text(text, moderation) ==
    IF Strip(text) = "" THEN "allowed" ELSE moderation

\* mutant: the view also sends the task of a blocked prompt
AvatarStatusUnmoderated(prompt, moderation, delay) ==
    IF Strip(prompt) = "" THEN 400
    ELSE IF delay THEN 202
    ELSE 500

\* the status generate_avatar answers; delay tells whether the broker takes
\* the task. A moderation that raises is logged and the task is sent
AvatarStatus(prompt, moderation, delay) ==
    IF Strip(prompt) = "" THEN 400
    ELSE IF moderate_text(Strip(prompt), moderation) = "blocked" THEN 400
    ELSE IF delay THEN 202
    ELSE 500

ModeratedResponse(route, user, text, verdict, status) ==
    <<[route |-> route, user |-> user, text |-> text, verdict |-> verdict,
       status |-> status]>>

\* UserProfileViewSet.generate_avatar: the task is sent with the user's id
generate_avatar(user_id, prompt, moderation, delay) ==
    /\ user_id \in DOMAIN profiles
    /\ profiles[user_id].exists
    /\ queue' = IF AvatarStatus(prompt, moderation, delay) = 202
                THEN queue \cup
                        {Message("generate_avatar_for_user", <<user_id>>, 0)}
                ELSE queue
    /\ response' = ModeratedResponse("generate_avatar", user_id, prompt,
                        IF Strip(prompt) = "" THEN "not called"
                        ELSE moderate_text(Strip(prompt), moderation),
                        AvatarStatus(prompt, moderation, delay))
    /\ UNCHANGED <<rng, artworks, profiles, running, done, siteVars,
                   notSite>>

\* UserProfileViewSet.destroy
destroy_profile(user_id) ==
    /\ user_id \in DOMAIN profiles
    /\ profiles[user_id].exists
    /\ profiles' = [profiles EXCEPT ![user_id].exists = FALSE]
    /\ UNCHANGED <<rng, artworks, queue, running, done, notJobs>>

\* the exception the body of the task raises, "" if none
AvatarFault(gen, save) ==
    CASE gen = "raise" -> "RuntimeError"
      [] gen = "none" -> "AttributeError"
      [] save # "ok" -> "RuntimeError"
      [] OTHER -> ""

\* the except clause: self.retry is raised inside a try whose except
\* passes, and the error dict is returned
AvatarFailure(m, exc) == Returned_("error", exc)

\* generate_avatar_for_user
generate_avatar_for_user(gen, save) ==
    /\ running # <<>>
    /\ running[1].pc = "received"
    /\ running[1].msg.task = "generate_avatar_for_user"
    /\ LET m == running[1].msg
           user_id == m.args[1]
           exc == AvatarFault(gen, save)
       IN  IF ~profiles[user_id].exists
           THEN /\ running' = <<[running[1] EXCEPT
                                    !.pc = "finished",
                                    !.outcome = Returned_("error",
                                                    "user not found")]>>
                /\ UNCHANGED <<profiles, queue>>
           ELSE IF exc = ""
           THEN /\ profiles' = [profiles EXCEPT
                                   ![user_id].avatar = <<"avatar">>]
                /\ running' = <<[running[1] EXCEPT
                                    !.pc = "finished",
                                    !.outcome = Returned_("success", "")]>>
                /\ UNCHANGED queue
           ELSE /\ profiles' =
                     IF gen = "image" /\ save = "profile_raises"
                     THEN [profiles EXCEPT ![user_id].avatar = <<"avatar">>]
                     ELSE profiles
                /\ queue' =
                     IF m.retries < max_retries
                     THEN queue \cup {Message(m.task, m.args, m.retries + 1)}
                     ELSE queue
                /\ running' = <<[running[1] EXCEPT
                                    !.pc = "finished",
                                    !.outcome = AvatarFailure(m, exc)]>>
    /\ UNCHANGED <<rng, artworks, done, notJobs>>

NextAvatar ==
    \/ \E user_id \in DOMAIN profiles, prompt \in Texts,
          moderation \in ModerationOutcomes, delay \in BOOLEAN :
            generate_avatar(user_id, prompt, moderation, delay)
    \/ \E user_id \in DOMAIN profiles : destroy_profile(user_id)
    \/ \E m \in queue : Deliver(m)
    \/ \E gen \in HuggingfaceOutcomes, save \in SaveOutcomes :
            generate_avatar_for_user(gen, save)
    \/ Acknowledge
    \/ WorkerLost

SpecAvatar == Init /\ [][NextAvatar]_vars

---------------------------------------------------------------------------
(* Prompt templates (prompt_library/views.py, permissions.py)              *)

\* prompt templates created
MaxPrompts == 2

Users == {"alice", "bob"}
\* request.user of a request without credentials
Anonymous == "anonymous"
\* author = None
NoAuthor == "none"
Titles == {"t1", "t2"}

SAFE_METHODS == {"GET", "HEAD", "OPTIONS"}

is_authenticated(user) == user \in Users

\* rest_framework.permissions.IsAuthenticatedOrReadOnly.has_permission
IsAuthenticatedOrReadOnly(method, user) ==
    method \in SAFE_METHODS \/ is_authenticated(user)

\* mutant: any object that has an author may be written by anyone
has_object_permission_any(method, user, obj) ==
    IF method \in SAFE_METHODS THEN TRUE
    ELSE IF "author" \notin DOMAIN obj THEN FALSE
    ELSE obj.author # NoAuthor

\* IsAuthorOrReadOnly.has_object_permission; reading the author of an
\* object that has none raises, and the except clause returns False
has_object_permission(method, user, obj) ==
    IF method \in SAFE_METHODS THEN TRUE
    ELSE IF "author" \notin DOMAIN obj THEN FALSE
    ELSE obj.author # NoAuthor /\ obj.author = user

\* PromptTemplateViewSet.get_queryset
get_queryset(user) ==
    {id \in DOMAIN prompts :
        /\ prompts[id].exists
        /\ is_authenticated(user) \/ prompts[id].is_public}

\* the status of a request on /prompts/<id>/: the permissions of the view,
\* then get_object with the object permissions
DetailStatus(method, user, id) ==
    IF ~IsAuthenticatedOrReadOnly(method, user) THEN 401
    ELSE IF id \notin get_queryset(user) THEN 404
    ELSE IF ~has_object_permission(method, user, prompts[id]) THEN 403
    ELSE IF method = "DELETE" THEN 204
    ELSE 200

Answered(method, user, target, status) ==
    <<[method |-> method, user |-> user, target |-> target,
       status |-> status]>>

PromptRow(author, title, is_public) ==
    [exists |-> TRUE, author |-> author, title |-> title,
     is_public |-> is_public, likes_count |-> 0]

\* a deleted row: its id is not reused and nothing of it is left
Deleted ==
    [exists |-> FALSE, author |-> NoAuthor, title |-> "t1",
     is_public |-> FALSE, likes_count |-> 0]

\* POST /prompts/: PromptTemplateViewSet.perform_create
template_create(user, title, is_public) ==
    /\ Len(prompts) < MaxPrompts
    /\ IF IsAuthenticatedOrReadOnly("POST", user)
       THEN /\ prompts' = Append(prompts, PromptRow(user, title, is_public))
            /\ response' = Answered("POST", user, Len(prompts) + 1, 201)
       ELSE /\ response' = Answered("POST", user, 0, 401)
            /\ UNCHANGED prompts
    /\ UNCHANGED <<library, accounts, cache, admitted, inflight, notWeb>>

\* manage.py seed_prompt_library: templates without an author
seed_prompt_library ==
    /\ Len(prompts) < MaxPrompts
    /\ prompts' = Append(prompts, PromptRow(NoAuthor, "t1", TRUE))
    /\ UNCHANGED <<library, accounts, cache, admitted, inflight, response, notWeb>>

\* GET /prompts/<id>/
template_retrieve(user, id) ==
    /\ response' = Answered("GET", user, id, DetailStatus("GET", user, id))
    /\ UNCHANGED <<prompts, library, accounts, cache, admitted, inflight, notWeb>>

\* PUT /prompts/<id>/ writes every field, PATCH the fields it is sent (here
\* the title)
template_update(method, user, id, title, is_public) ==
    /\ method = "PATCH" => is_public
    /\ response' = Answered(method, user, id, DetailStatus(method, user, id))
    /\ prompts' = IF DetailStatus(method, user, id) # 200 THEN prompts
                  ELSE IF method = "PATCH"
                  THEN [prompts EXCEPT ![id].title = title]
                  ELSE [prompts EXCEPT ![id].title = title,
                                       ![id].is_public = is_public]
    /\ UNCHANGED <<library, accounts, cache, admitted, inflight, notWeb>>

\* DELETE /prompts/<id>/
template_destroy(user, id) ==
    /\ response' = Answered("DELETE", user, id,
                            DetailStatus("DELETE", user, id))
    /\ prompts' = IF DetailStatus("DELETE", user, id) = 204
                  THEN [prompts EXCEPT ![id] = Deleted]
                  ELSE prompts
    /\ UNCHANGED <<library, accounts, cache, admitted, inflight, notWeb>>

NextTemplates ==
    \/ \E user \in Users \cup {Anonymous}, title \in Titles,
          is_public \in BOOLEAN : template_create(user, title, is_public)
    \/ seed_prompt_library
    \/ \E user \in Users \cup {Anonymous}, id \in 1..MaxPrompts :
          \/ template_retrieve(user, id)
          \/ \E method \in {"PUT", "PATCH"}, title \in Titles,
                is_public \in BOOLEAN :
                template_update(method, user, id, title, is_public)
          \/ template_destroy(user, id)

SpecTemplates == Init /\ [][NextTemplates]_vars

---------------------------------------------------------------------------
(* GeneratePromptView (prompt_library/views.py)                            *)

\* attempts of the Gemini call: len(temps)
MaxAttempts == 3

\* the view authenticates nobody, so the identifier is always gemini_rl_
\* followed by REMOTE_ADDR; the last client has an address of its own
REMOTE_ADDR(client) ==
    IF client = NumClients /\ NumClients > 1 THEN "10.0.0.2" ELSE "10.0.0.1"

\* cache.get(identifier, 0)
cache_get(identifier) ==
    IF identifier \in DOMAIN cache THEN cache[identifier] ELSE 0

\* cache.set(identifier, value, timeout=60)
cache_set(identifier, value) ==
    [k \in DOMAIN cache \cup {identifier} |->
        IF k = identifier THEN value ELSE cache[k]]

\* what one requests.post of the loop does
GeminiOutcomes ==
    {"RequestException", "Exception", "non_200", "no_text", "text", "texts"}

\* the texts found in one response
Found(outcome) ==
    IF outcome = "text" THEN <<"g1">>
    ELSE IF outcome = "texts" THEN <<"g1", "g2", "g3">>
    ELSE <<>>

\* for t in found: append unique texts until there are three
RECURSIVE AppendUnique(_, _)
AppendUnique(variations, found) ==
    IF found = <<>> \/ Len(variations) >= 3 THEN variations
    ELSE AppendUnique(
            IF \E i \in 1..Len(variations) : variations[i] = Head(found)
            THEN variations ELSE Append(variations, Head(found)),
            Tail(found))

\* for temp in temps: ... ; an exception that is not a RequestException
\* leaves the loop and the view
RECURSIVE GeminiLoop(_, _, _)
GeminiLoop(outcomes, i, variations) ==
    IF i > MaxAttempts \/ Len(variations) >= 3
    THEN [raised |-> FALSE, attempts |-> i - 1, variations |-> variations]
    ELSE IF outcomes[i] = "Exception"
    THEN [raised |-> TRUE, attempts |-> i, variations |-> variations]
    ELSE GeminiLoop(outcomes, i + 1,
                    AppendUnique(variations, Found(outcomes[i])))

\* while len(variations) < 3: variations.append('')
Padded(variations) ==
    [i \in 1..3 |-> IF i <= Len(variations) THEN variations[i] ELSE ""]

HttpResponse(client, status, model, variations, attempts) ==
    <<[client |-> client, status |-> status, model |-> model,
       variations |-> variations, attempts |-> attempts]>>

\* the response of an admitted request, from what the loop left
GeminiResponse(client, loop) ==
    IF loop.raised
    THEN HttpResponse(client, 500, "", <<>>, loop.attempts)
    ELSE IF loop.variations = <<>>
    THEN HttpResponse(client, 200, "local-fallback", <<"v1", "v2", "v3">>,
                      loop.attempts)
    ELSE HttpResponse(client, 200, "gemini-pro", Padded(loop.variations),
                      loop.attempts)

\* post up to cache.get: the userInput check and the read of the counter
post_begin(client, user_input) ==
    /\ inflight[client].pc = "idle"
    /\ IF user_input = ""
       THEN /\ inflight' = [inflight EXCEPT ![client].pc = "done"]
            /\ response' = HttpResponse(client, 400, "", <<>>, 0)
       ELSE /\ inflight' = [inflight EXCEPT ![client] =
                    [pc |-> "read", count |-> cache_get(REMOTE_ADDR(client))]]
            /\ UNCHANGED response
    /\ UNCHANGED <<prompts, library, accounts, cache, admitted, notWeb>>

\* post from the comparison with 60 to its return
post_end(client, api_key, outcomes) ==
    /\ inflight[client].pc = "read"
    /\ inflight' = [inflight EXCEPT ![client] = [pc |-> "done", count |-> 0]]
    /\ IF inflight[client].count >= RateLimit
       THEN /\ response' = HttpResponse(client, 429, "", <<>>, 0)
            /\ UNCHANGED <<cache, admitted>>
       ELSE /\ cache' = cache_set(REMOTE_ADDR(client),
                                  inflight[client].count + 1)
            /\ admitted' = [admitted EXCEPT ![REMOTE_ADDR(client)] = @ + 1]
            /\ response' =
                 IF ~api_key THEN HttpResponse(client, 501, "", <<>>, 0)
                 ELSE GeminiResponse(client, GeminiLoop(outcomes, 1, <<>>))
    /\ UNCHANGED <<prompts, library, accounts, notWeb>>

\* a counter is 60 seconds old: the window of its identifier ends
cache_expire(identifier) ==
    /\ identifier \in DOMAIN cache
    /\ cache' = [k \in DOMAIN cache \ {identifier} |-> cache[k]]
    /\ admitted' = [admitted EXCEPT ![identifier] = 0]
    /\ UNCHANGED <<prompts, library, accounts, inflight, response, notWeb>>

NextGenerate ==
    \/ \E client \in 1..NumClients, user_input \in {"", "a cat"} :
          post_begin(client, user_input)
    \/ \E client \in 1..NumClients, api_key \in BOOLEAN,
          outcomes \in [1..MaxAttempts -> GeminiOutcomes] :
          post_end(client, api_key, outcomes)
    \/ \E identifier \in Addresses : cache_expire(identifier)

SpecGenerate == Init /\ [][NextGenerate]_vars

---------------------------------------------------------------------------
(* The prompt library: like, unlike and /user-prompts/                     *)

\* request.user of the requests of a client
SessionUser(client) ==
    IF client = NumClients /\ NumClients > 1 THEN "bob" ELSE "alice"

Entry(user, prompt, is_favorite) ==
    [user |-> user, prompt |-> prompt, is_favorite |-> is_favorite]

\* UserPromptLibrary.objects.filter(user=..., prompt=...)
Entries(user, prompt) ==
    {e \in library : e.user = user /\ e.prompt = prompt}

\* mutant: the table has no unique constraint
ConflictsNever(user, prompt) == FALSE

\* unique_together (user, prompt): an INSERT of a second row for the pair
\* raises IntegrityError
Conflicts(user, prompt) == Entries(user, prompt) # {}

\* prompt.saved_by.filter(is_favorite=True).count()
Favorites(lib, prompt) ==
    Cardinality({e \in lib : e.prompt = prompt /\ e.is_favorite})

LibraryResponse(route, user, prompt, status, entry) ==
    <<[route |-> route, user |-> user, prompt |-> prompt,
       status |-> status, entry |-> entry]>>

\* UserPromptLibraryViewSet.create up to the SELECT of get_or_create:
\* an unknown prompt_id is a validation error, a row found is returned
library_create_begin(client, prompt, is_favorite) ==
    /\ inflight[client].pc = "idle"
    /\ IF prompt \notin DOMAIN prompts
       THEN /\ response' = LibraryResponse("user-prompts",
                               SessionUser(client), prompt, 400, <<>>)
            /\ UNCHANGED inflight
       ELSE IF Entries(SessionUser(client), prompt) # {}
       THEN /\ response' = LibraryResponse("user-prompts",
                               SessionUser(client), prompt, 200,
                               CHOOSE e \in Entries(SessionUser(client),
                                                    prompt) : TRUE)
            /\ UNCHANGED inflight
       ELSE /\ inflight' = [inflight EXCEPT ![client] =
                    [pc |-> "create", prompt |-> prompt,
                     is_favorite |-> is_favorite]]
            /\ UNCHANGED response
    /\ UNCHANGED <<prompts, library, accounts, cache, admitted, notWeb>>

\* get_or_create after DoesNotExist: the INSERT, and on IntegrityError the
\* SELECT again
library_create_end(client) ==
    /\ inflight[client].pc = "create"
    /\ inflight' = [inflight EXCEPT ![client] = [pc |-> "idle", count |-> 0]]
    /\ IF Conflicts(SessionUser(client), inflight[client].prompt)
       THEN /\ response' = LibraryResponse("user-prompts",
                               SessionUser(client), inflight[client].prompt,
                               200,
                               CHOOSE e \in Entries(SessionUser(client),
                                          inflight[client].prompt) : TRUE)
            /\ UNCHANGED library
       ELSE /\ library' = library \cup
                    {Entry(SessionUser(client), inflight[client].prompt,
                           inflight[client].is_favorite)}
            /\ response' = LibraryResponse("user-prompts",
                               SessionUser(client), inflight[client].prompt,
                               201,
                               Entry(SessionUser(client),
                                     inflight[client].prompt,
                                     inflight[client].is_favorite))
    /\ UNCHANGED <<prompts, accounts, cache, admitted, notWeb>>

\* the library after the rows of (user, prompt) have been saved with
\* is_favorite
Saved(user, prompt, is_favorite) ==
    (library \ Entries(user, prompt))
        \cup {Entry(user, prompt, is_favorite)}

\* POST /prompts/<id>/like/
like(client, prompt) ==
    /\ inflight[client].pc = "idle"
    /\ prompt \in get_queryset(SessionUser(client))
    /\ library' = Saved(SessionUser(client), prompt, TRUE)
    /\ prompts' = [prompts EXCEPT ![prompt].likes_count =
                      Favorites(library', prompt)]
    /\ response' = LibraryResponse("like", SessionUser(client), prompt, 200,
                                   Entry(SessionUser(client), prompt, TRUE))
    /\ UNCHANGED <<accounts, cache, admitted, inflight, notWeb>>

\* POST /prompts/<id>/unlike/
unlike(client, prompt) ==
    /\ inflight[client].pc = "idle"
    /\ prompt \in get_queryset(SessionUser(client))
    /\ library' = IF Entries(SessionUser(client), prompt) = {} THEN library
                  ELSE Saved(SessionUser(client), prompt, FALSE)
    /\ prompts' = [prompts EXCEPT ![prompt].likes_count =
                      Favorites(library', prompt)]
    /\ response' = LibraryResponse("unlike", SessionUser(client), prompt,
                                   200, <<>>)
    /\ UNCHANGED <<accounts, cache, admitted, inflight, notWeb>>

NextLibrary ==
    \/ seed_prompt_library
    \/ \E client \in 1..NumClients, prompt \in 1..MaxPrompts :
          \/ \E is_favorite \in BOOLEAN :
                library_create_begin(client, prompt, is_favorite)
          \/ like(client, prompt)
          \/ unlike(client, prompt)
    \/ \E client \in 1..NumClients : library_create_end(client)

SpecLibrary == Init /\ [][NextLibrary]_vars

---------------------------------------------------------------------------
(* password_reset_request (accounts/views.py)                              *)

Emails == {"", "a@x.org", "A@x.org", "b@x.org"}

\* email__iexact compares without regard to case
Lower(email) == IF email = "A@x.org" THEN "a@x.org" ELSE email

\* User.objects.get(email__iexact=email) finds a user
Registered(email) == \E e \in accounts : Lower(e) = Lower(email)

ResetResponse(email, status, detail, reset_url) ==
    [email |-> email, registered |-> Registered(email), status |-> status,
     detail |-> detail, reset_url |-> reset_url]

\* a user signs up with an email no user has
register(email) ==
    /\ email # ""
    /\ ~Registered(email)
    /\ accounts' = accounts \cup {email}
    /\ UNCHANGED <<prompts, library, cache, admitted, inflight, response,
                   notWeb>>

\* POST { "email": ... } with settings.DEBUG as given, where sent tells
\* whether email_msg.send returns or raises; the two answers given last
\* are kept
password_reset_request(email, DEBUG, sent) ==
    /\ response' = <<
          IF email = ""
          THEN ResetResponse(email, 400, "Email is required", FALSE)
          ELSE IF ~Registered(email)
          THEN ResetResponse(email, 200,
                  "If the email exists, a reset link has been sent.", FALSE)
          ELSE IF ~sent
          THEN ResetResponse(email, 500, "Failed to send reset email", FALSE)
          ELSE ResetResponse(email, 200,
                  "If the email exists, a reset link has been sent.", DEBUG)
          >> \o (IF response = <<>> THEN <<>> ELSE <<response[1]>>)
    /\ UNCHANGED <<prompts, library, accounts, cache, admitted, inflight,
                   notWeb>>

NextReset ==
    \/ \E email \in Emails : register(email)
    \/ \E email \in Emails, DEBUG \in BOOLEAN, sent \in BOOLEAN :
          password_reset_request(email, DEBUG, sent)

SpecReset == Init /\ [][NextReset]_vars

---------------------------------------------------------------------------
(* Moderated submissions: avatar prompts and artwork comments              *)

\* the status of POST /artworks/<id>/comments/: get_object, the check of
\* the user, the moderation, the serializer (content may not be blank)
CommentStatus(user, artwork_id, content, moderation) ==
    IF artwork_id \notin DOMAIN artworks \/ ~artworks[artwork_id].exists
    THEN 404
    ELSE IF ~is_authenticated(user) THEN 401
    ELSE IF moderate_text(content, moderation) = "raises" THEN 500
    ELSE IF moderate_text(content, moderation) = "blocked" THEN 400
    ELSE IF Strip(content) = "" THEN 400
    ELSE 201

\* ArtworkViewSet.comments with method POST
comments_post(user, artwork_id, content, moderation) ==
    /\ comments' = IF CommentStatus(user, artwork_id, content, moderation)
                        = 201
                   THEN comments \cup {[artwork |-> artwork_id,
                                        user |-> user,
                                        content |-> Strip(content)]}
                   ELSE comments
    /\ response' = ModeratedResponse("comments", user, content,
                        IF CommentStatus(user, artwork_id, content,
                                         moderation) \in {404, 401}
                        THEN "not called"
                        ELSE moderate_text(content, moderation),
                        CommentStatus(user, artwork_id, content, moderation))
    /\ UNCHANGED <<jobVars, members, likes, notSite>>

NextModeration ==
    \/ \E req \in {r \in ArtworkRequests : r.generation_type = "hybrid"} :
            perform_create(req)
    \/ \E id \in DOMAIN artworks : perform_destroy(id)
    \/ \E user_id \in DOMAIN profiles, prompt \in Texts,
          moderation \in ModerationOutcomes, delay \in BOOLEAN :
            generate_avatar(user_id, prompt, moderation, delay)
    \/ \E user \in Users \cup {Anonymous}, artwork_id \in 1..2,
          content \in Texts, moderation \in ModerationOutcomes :
            comments_post(user, artwork_id, content, moderation)

SpecModeration == Init /\ [][NextModeration]_vars

---------------------------------------------------------------------------
(* UserProfileViewSet.update_me (accounts/views.py)                        *)

\* request.data.get('username'), "" when the request has none
Usernames == {"", "alice", "bob", "carol"}
\* request.data.get('email'), "" when the request has none
NewEmails == {"", "a@x.org", "b@x.org", "c@x.org"}
\* the profile fields of the request: none, a valid bio, an invalid field
ProfileData == {"", "hi", "invalid"}

\* mutant: the username is not looked up
username_taken_never(user, username) == FALSE

\* User.objects.filter(username=username).exclude(pk=request.user.pk)
\* .exists()
username_taken(user, username) ==
    \E other \in DOMAIN members \ {user} :
        members[other].username = username

\* User.objects.filter(email=email).exclude(pk=request.user.pk).exists()
email_taken(user, email) ==
    \E other \in DOMAIN members \ {user} : members[other].email = email

\* the request changes the username (the email) of the user
username_changes(user, username) ==
    username # "" /\ username # members[user].username
email_changes(user, email) == email # "" /\ email # members[user].email

\* the error update_me answers with 400, "" if it answers 200
UpdateError(user, username, email, data) ==
    IF username_changes(user, username) /\ username_taken(user, username)
    THEN "username"
    ELSE IF email_changes(user, email) /\ email_taken(user, email)
    THEN "email"
    ELSE IF data = "invalid" THEN "profile"
    ELSE ""

\* PATCH /profiles/update_me/: the user row is saved once both checks have
\* passed, the profile once the serializer has found the data valid
update_me(user, username, email, data) ==
    /\ response' = <<[route |-> "update_me", user |-> user,
                      username |-> username, email |-> email, data |-> data,
                      error |-> UpdateError(user, username, email, data),
                      status |-> IF UpdateError(user, username, email, data)
                                    = "" THEN 200 ELSE 400]>>
    /\ members' =
         IF UpdateError(user, username, email, data) \in {"username", "email"}
         THEN members
         ELSE [members EXCEPT
                ![user].username =
                    IF username_changes(user, username) THEN username ELSE @,
                ![user].email =
                    IF email_changes(user, email) THEN email ELSE @,
                ![user].bio = IF data = "hi" THEN "hi" ELSE @]
    /\ UNCHANGED <<jobVars, comments, likes, notSite>>

NextProfile ==
    \E user \in DOMAIN members, username \in Usernames, email \in NewEmails,
       data \in ProfileData : update_me(user, username, email, data)

SpecProfile == Init /\ [][NextProfile]_vars

---------------------------------------------------------------------------
(* ArtworkViewSet.like (media_processing/views.py): the like toggle of one *)
(* artwork. The view runs in no transaction, so its statements are steps   *)
(* of their own: get_object reads the artwork with its likes_count, the    *)
(* filter looks for the user's ArtworkLike row, the row is deleted or      *)
(* created, and likes_count is saved from the value read at the start.     *)
(* likes.rows counts the ArtworkLike rows of each user for the artwork.    *)

\* likes_count is not followed beyond this value
MaxLikes == 3

\* request.user of a client's request: the last client is bob, the others
\* are alice
LikeUser(client) == IF client = NumClients THEN "bob" ELSE "alice"

\* the number of ArtworkLike rows of the artwork
RowCount(rows) == rows["alice"] + rows["bob"]

\* unique_together = ['user', 'artwork']: a second row is refused
unique_together(rows, user) == rows[user] > 0

\* artwork = self.get_object()
like_get_object(client) ==
    /\ inflight[client].pc = "idle"
    /\ likes.likes_count < MaxLikes
    /\ inflight' = [inflight EXCEPT
                        ![client] = [pc |-> "got_object",
                                     count |-> likes.likes_count]]
    /\ UNCHANGED <<artVars, jobVars, prompts, library, accounts, cache,
                   admitted, response, siteVars>>

\* liked = ArtworkLike.objects.filter(user=user, artwork=artwork).first()
like_filter(client) ==
    /\ inflight[client].pc = "got_object"
    /\ inflight' = [inflight EXCEPT
                        ![client].pc =
                            IF likes.rows[LikeUser(client)] > 0
                            THEN "liked" ELSE "not liked"]
    /\ UNCHANGED <<artVars, jobVars, prompts, library, accounts, cache,
                   admitted, response, siteVars>>

\* liked.delete(): deletes the row found, if it is still there
like_delete(client) ==
    /\ inflight[client].pc = "liked"
    /\ likes' = [likes EXCEPT
                    !.rows[LikeUser(client)] = IF @ > 0 THEN @ - 1 ELSE 0]
    /\ inflight' = [inflight EXCEPT ![client].pc = "deleted"]
    /\ UNCHANGED <<artVars, jobVars, prompts, library, accounts, cache,
                   admitted, response, comments, members>>

\* ArtworkLike.objects.create(user=user, artwork=artwork): an IntegrityError
\* when the user's row exists by now, which ends the request
like_create(client) ==
    /\ inflight[client].pc = "not liked"
    /\ IF unique_together(likes.rows, LikeUser(client))
       THEN /\ inflight' = [inflight EXCEPT
                                ![client] = [pc |-> "idle", count |-> 0]]
            /\ response' = <<[route |-> "like",
                              user |-> LikeUser(client),
                              status |-> "IntegrityError",
                              likes_count |-> inflight[client].count]>>
            /\ UNCHANGED likes
       ELSE /\ likes' = [likes EXCEPT !.rows[LikeUser(client)] = @ + 1]
            /\ inflight' = [inflight EXCEPT ![client].pc = "created"]
            /\ UNCHANGED response
    /\ UNCHANGED <<artVars, jobVars, prompts, library, accounts, cache,
                   admitted, comments, members>>

\* artwork.likes_count -= 1 when it is positive, or += 1; then
\* artwork.save(update_fields=['likes_count']) and the response
like_save(client) ==
    /\ inflight[client].pc \in {"deleted", "created"}
    /\ LET count == inflight[client].count
           likes_count == IF inflight[client].pc = "created"
                          THEN count + 1
                          ELSE IF count > 0 THEN count - 1 ELSE count
       IN  /\ likes' = [likes EXCEPT
                            !.likes_count =
                                IF inflight[client].pc = "deleted"
                                   /\ count = 0
                                THEN @ ELSE likes_count]
           /\ response' = <<[route |-> "like",
                             user |-> LikeUser(client),
                             status |-> IF inflight[client].pc = "created"
                                        THEN "liked" ELSE "unliked",
                             likes_count |-> likes_count]>>
    /\ inflight' = [inflight EXCEPT ![client] = [pc |-> "idle", count |-> 0]]
    /\ UNCHANGED <<artVars, jobVars, prompts, library, accounts, cache,
                   admitted, comments, members>>

NextLike ==
    \/ \E client \in 1..NumClients : like_get_object(client)
    \/ \E client \in 1..NumClients : like_filter(client)
    \/ \E client \in 1..NumClients : like_delete(client)
    \/ \E client \in 1..NumClients : like_create(client)
    \/ \E client \in 1..NumClients : like_save(client)

SpecLike == Init /\ [][NextLike]_vars

---------------------------------------------------------------------------
(* Claims *)

\* the calls that have returned: the last one and its repetition
Returned == {last[i] : i \in DOMAIN last} \cup {again[i] : i \in DOMAIN again}

InCatalog(c) == c.pattern_type \in DOMAIN PATTERN_CATALOG

Listed(xs) == {xs[i] : i \in DOMAIN xs}

\* whether a drawing operation paints pixel (x, y); the reach of a line, a
\* polygon or a spiral circle is not computed and counts as painting it
Covers(op, x, y) ==
    IF op.kind = "ellipse"
    THEN LET dx == op.at[3] - op.at[1]
             dy == op.at[4] - op.at[2]
             ex == 2 * x - (op.at[1] + op.at[3])
             ey == 2 * y - (op.at[2] + op.at[4])
         IN  (ex * dy) * (ex * dy) + (ey * dx) * (ey * dx)
                <= (dx * dy) * (dx * dy)
             /\ ex * ex <= dx * dx /\ ey * ey <= dy * dy
    ELSE IF op.kind \in {"point", "pixel"}
    THEN op.at = <<x, y>>
    ELSE TRUE

\* the colour of pixel (x, y): that of the last operation painting it
PixelAt(img, x, y) ==
    LET hits == {k \in DOMAIN img.ops : Covers(img.ops[k], x, y)}
    IN  IF hits = {} THEN img.bg
        ELSE img.ops[CHOOSE k \in hits : \A j \in hits : j <= k].color

AllBackground(img) ==
    \A x \in 0..(img.width - 1), y \in 0..(img.height - 1) :
        PixelAt(img, x, y) = img.bg

\* C1: a pattern id that is not a key of the catalog is rejected, whatever
\* size and params are: the call raises the unknown-pattern ValueError, whose
\* message lists every available pattern id, and returns no raster.
C1_UnknownPatternRejected ==
    \A c \in Returned :
        ~InCatalog(c) =>
            /\ ~c.result.ok
            /\ c.result.err = "ValueError"
            /\ c.result.where = "generate_algorithmic_art"
            /\ Listed(c.result.available) = DOMAIN PATTERN_CATALOG

C1_Witness ==
    \E c \in Returned :
        /\ c.pattern_type = "not_a_real_pattern"
        /\ c.size = 0 - 1
        /\ "r" \in DOMAIN c.params
        /\ "bg_color" \in DOMAIN c.params
        /\ ~c.result.ok

\* C2: the catalog and the dispatcher know the same pattern ids, and every
\* catalog id called with a valid size and no parameter but the defaults
\* returns a raster.
C2_CatalogDefaultsSucceed ==
    /\ Listed(GeneratorKeys) = DOMAIN PATTERN_CATALOG
    /\ \A c \in Returned :
          (InCatalog(c) /\ c.params = Kw0 /\ c.size > 0) => c.result.ok

C2_Witness ==
    \E c \in Returned :
        /\ c.pattern_type = "spirograph"
        /\ c.params = Kw0
        /\ c.size = MaxSize
        /\ c.result.ok
        /\ c.result.val.ops # <<>>

\* C3: a raster returned for a catalog pattern and a size > 0 is exactly
\* size x size: no generator changes the dimensions of its canvas.
C3_RasterIsSizeBySize ==
    \A c \in Returned :
        (InCatalog(c) /\ c.size > 0 /\ c.result.ok) =>
            /\ c.result.val.width = c.size
            /\ c.result.val.height = c.size

C3_Witness ==
    \E c \in Returned :
        /\ c.pattern_type = "mandelbrot_set"
        /\ c.size = MaxSize
        /\ c.result.ok
        /\ Len(c.result.val.ops) = MaxSize * MaxSize
        /\ c.result.val.width = MaxSize

\* C4: for a catalog pattern, a size <= 0 (zero included) is rejected with
\* a parameter error at canvas construction; no raster is returned.
C4_NonPositiveSizeRejected ==
    \A c \in Returned :
        (InCatalog(c) /\ c.size <= 0) =>
            /\ ~c.result.ok
            /\ c.result.err = "ValueError"
            /\ c.result.where \in {"Image.new", "_hex_to_rgb"}

\* C5: spirograph with r = 0 is rejected with the error class of invalid
\* parameters (ValueError), for every R, d and rotations, never with an
\* arithmetic fault (stated for the valid sizes, where no other parameter
\* error can stand in for it).
C5_SpirographZeroWheelRejected ==
    \A c \in Returned :
        (/\ c.pattern_type = "spirograph"
         /\ Get(c.params, "r", 50) = 0
         /\ c.size > 0) =>
            /\ ~c.result.ok
            /\ c.result.err = "ValueError"

\* C6: for the patterns listed as free of randomness, two calls with the
\* same arguments (and a valid size) return identical results.
NoRandomness ==
    {"concentric_circles", "spiral_circles", "hexagonal_grid",
     "mandelbrot_set", "recursive_tree", "spirograph"}

C6_Deterministic ==
    (/\ last # <<>>
     /\ again # <<>>
     /\ last[1].pattern_type \in NoRandomness
     /\ last[1].size > 0)
        => again[1].result = last[1].result

\* C7: concurrent calls share no mutable state: a call that ran beside
\* another returns what it returns when it runs alone from the state the
\* random generator had when the call began.
C7_CallsIsolated ==
    \A t \in 1..NumThreads :
        threads[t].pc = "done" =>
            threads[t].result[1] =
                CallResult(threads[t].call[1],
                           DrawsFrom(threads[t].seed,
                                     CallDraws(threads[t].call[1])))

\* C8: concentric_circles with num_circles = 0, a valid size and a valid
\* background raises nothing and returns a raster whose every pixel is the
\* background colour, for every color_scheme.
C8_ZeroCirclesIsBackground ==
    \A c \in Returned :
        (/\ c.pattern_type = "concentric_circles"
         /\ "num_circles" \in DOMAIN c.params
         /\ c.params["num_circles"] = 0
         /\ c.size > 0
         /\ WellFormed(Get(c.params, "bg_color", ColWhite)))
        => /\ c.result.ok
           /\ c.result.val.bg = _hex_to_rgb(Get(c.params, "bg_color", ColWhite)).val
           /\ AllBackground(c.result.val)

C8_Witness ==
    \E c \in Returned :
        /\ c.pattern_type = "concentric_circles"
        /\ c.params = ("num_circles" :> 0) @@ ("color_scheme" :> "custom")
                        @@ ("base_color" :> ColNonHex)
        /\ c.size = MaxSize
        /\ c.result.ok
        /\ PixelAt(c.result.val, 1, 1) = Rgb(255, 255, 255)

\* C9: with a zero count no generative pattern divides by zero or indexes
\* an empty collection.
C9_ZeroCountsNoFault ==
    \A c \in Returned :
        (\/ c.pattern_type = "random_walk"
            /\ Get(c.params, "num_walkers", 5) = 0
         \/ c.pattern_type = "voronoi_diagram"
            /\ Get(c.params, "num_points", 20) = 0
         \/ c.pattern_type = "wave_interference"
            /\ Get(c.params, "num_sources", 4) = 0)
        => (c.result.ok
            \/ c.result.err \notin {"ZeroDivisionError", "IndexError"})

\* '#RRGGBB' read as its three 2-digit groups
Triple(s) ==
    Rgb(16 * HexVal(s[2]) + HexVal(s[3]), 16 * HexVal(s[4]) + HexVal(s[5]),
        16 * HexVal(s[6]) + HexVal(s[7]))

\* C10: a bg_color or base_color that is not '#' and six hex digits makes
\* generation fail with a parameter error, and a well-formed bg_color is
\* parsed to the triple of its three groups (stated for the valid sizes).
C10_MalformedColorRejected ==
    \A c \in Returned :
        (InCatalog(c) /\ c.size > 0) =>
            /\ (\E k \in {"bg_color", "base_color"} :
                    k \in DOMAIN c.params /\ ~WellFormed(c.params[k]))
               => (~c.result.ok /\ c.result.err = "ValueError")
            /\ ("bg_color" \in DOMAIN c.params
                    /\ WellFormed(c.params["bg_color"]) /\ c.result.ok)
               => c.result.val.bg = Triple(c.params["bg_color"])

\* the monochrome concentric_circles calls with at least one circle that
\* returned a raster with at least one pixel
MonochromeCalls ==
    {c \in Returned :
        /\ c.pattern_type = "concentric_circles"
        /\ Get(c.params, "color_scheme", "rainbow") = "monochrome"
        /\ Get(c.params, "num_circles", 20) >= 1
        /\ c.size >= 1
        /\ c.result.ok}

CenterPixel(c) == PixelAt(c.result.val, c.size \div 2, c.size \div 2)

Outcome(pattern_type, size, params) ==
    generate_algorithmic_art(pattern_type, size, params,
                             DrawsFrom(0, Draws(pattern_type, size, params)))

\* the call reads parameter k: leaving k out changes what it returns
Reads(c, k) ==
    Outcome(c.pattern_type, c.size, Pop(c.params, k))
        # Outcome(c.pattern_type, c.size, c.params)

\* leaving k out gives what passing the catalog's default for k gives
OmittedIsCatalogDefault(c, k) ==
    LET schema == PATTERN_CATALOG[c.pattern_type].params
    IN  Outcome(c.pattern_type, c.size, Pop(c.params, k))
            = Outcome(c.pattern_type, c.size,
                      (k :> schema[k]) @@ Pop(c.params, k))

\* C12: every parameter a pattern's call reads (bg_color and base_color
\* included) is in that pattern's PATTERN_CATALOG schema with a default, and
\* a caller who omits it gets exactly that default.
C12_ReadParamsInCatalog ==
    \A c \in Returned :
        (InCatalog(c) /\ c.size > 0) =>
            \A k \in DOMAIN c.params :
                Reads(c, k) =>
                    /\ k \in DOMAIN PATTERN_CATALOG[c.pattern_type].params
                    /\ OmittedIsCatalogDefault(c, k)

\* every change of the status of a row that exists before and after the
\* step is one of the moves in `allowed`
StatusMovesWithin(allowed) ==
    \A id \in DOMAIN artworks :
        (/\ id \in DOMAIN artworks'
         /\ artworks[id].exists
         /\ artworks'[id].exists
         /\ artworks'[id].status # artworks[id].status)
        => <<artworks[id].status, artworks'[id].status>> \in allowed

ForwardMoves ==
    {<<"queued", "processing">>, <<"processing", "completed">>,
     <<"processing", "failed">>}

AvatarEnded ==
    {running[i] : i \in {j \in DOMAIN running : running[j].pc = "finished"}}
        \cup {done[i] : i \in DOMAIN done}

\* C14: when generating the image or saving the avatar raises, for an
\* existing user, the task ends with a raised exception (the Retry while
\* retries < max_retries), never with a returned result dict.
C14_AvatarFailureRaises ==
    \A e \in AvatarEnded :
        (/\ e.msg.task = "generate_avatar_for_user"
         /\ e.outcome.message \in {"RuntimeError", "AttributeError"})
        => e.outcome.kind \in {"retry", "raised"}

\* the step changes or deletes prompt template id
TemplateWritten(id) ==
    /\ prompts[id].exists
    /\ \/ ~prompts'[id].exists
       \/ prompts'[id].title # prompts[id].title
       \/ prompts'[id].is_public # prompts[id].is_public

\* C15: a safe method on a template the user can see is granted; an unsafe
\* method is granted only to the non-null author of the template, and an
\* object whose author cannot be read is denied; so every step that changes
\* or deletes a template is a request of its author.
C15_OnlyAuthorWrites ==
    [][/\ \A id \in DOMAIN prompts :
            TemplateWritten(id) =>
                /\ response' # <<>>
                /\ prompts[id].author # NoAuthor
                /\ response'[1].user = prompts[id].author
                /\ response'[1].method \in {"PUT", "PATCH", "DELETE"}
       /\ (response' # <<>> /\ response' # response) =>
          \A id \in get_queryset(response'[1].user) :
            response'[1].target = id =>
                /\ response'[1].method \in SAFE_METHODS
                        => response'[1].status = 200
                /\ (response'[1].method \in {"PUT", "PATCH", "DELETE"}
                        /\ response'[1].user # prompts[id].author)
                        => response'[1].status \in {401, 403}
       /\ \A user \in Users :
            ~has_object_permission("PUT", user, [title |-> "t1"])
      ]_vars

\* a PUT by an authenticated user who is not the author has been denied and
\* the template is as its author left it
C15_Witness ==
    /\ response # <<>>
    /\ response[1].method = "PUT"
    /\ response[1].user = "bob"
    /\ response[1].status = 403
    /\ response[1].target \in DOMAIN prompts
    /\ prompts[response[1].target].exists
    /\ prompts[response[1].target].author = "alice"
    /\ prompts[response[1].target].title = "t2"

\* C16: within a window no identifier has more than 60 requests let past
\* the rate limit, also when its requests are handled concurrently.
C16_AtMostSixtyAdmitted ==
    \A identifier \in Addresses : admitted[identifier] <= RateLimit

\* every Gemini call of the request fails
AllAttemptsFail ==
    [1..MaxAttempts ->
        {"RequestException", "Exception", "non_200", "no_text"}]

\* C17: a request with a userInput and a configured API key that is let
\* past the rate limit and whose Gemini calls all fail (an exception of any
\* kind, a status other than 200, no text) is answered 200 with three
\* non-empty variations of the model local-fallback after at most 3 calls.
C17_FailuresFallBack ==
    [][\A client \in 1..NumClients, outcomes \in AllAttemptsFail :
          (/\ post_end(client, TRUE, outcomes)
           /\ inflight[client].count < RateLimit) =>
              /\ response'[1].status = 200
              /\ response'[1].model = "local-fallback"
              /\ Len(response'[1].variations) = 3
              /\ \A i \in 1..3 : response'[1].variations[i] # ""
              /\ response'[1].attempts <= MaxAttempts
      ]_vars

\* the answer of the step is that of a POST to /user-prompts/
CreateAnswered ==
    /\ response' # <<>>
    /\ response' # response
    /\ response'[1].route = "user-prompts"

\* C18: a POST to /user-prompts/ for a pair without entry creates one entry
\* and is answered 201, a POST for a pair that has an entry is answered 200
\* with that entry and changes nothing; there is never more than one entry
\* per (user, prompt), also when POSTs are handled concurrently, and no POST
\* fails with an integrity error.
C18_CreateIdempotent ==
    [][/\ \A user \in Users, prompt \in 1..MaxPrompts :
            /\ Cardinality({e \in library' : e.user = user
                                              /\ e.prompt = prompt}) <= 1
            /\ \A e \in Entries(user, prompt) :
                    \/ e \in library'
                    \/ /\ response' # <<>>
                       /\ response'[1].route \in {"like", "unlike"}
       /\ CreateAnswered =>
            /\ response'[1].status \in {200, 201, 400}
            /\ response'[1].status = 400 =>
                    response'[1].prompt \notin DOMAIN prompts
            /\ response'[1].status = 201 =>
                    /\ Entries(response'[1].user, response'[1].prompt) = {}
                    /\ library' = library \cup {response'[1].entry}
            /\ response'[1].status = 200 =>
                    /\ response'[1].entry
                            \in Entries(response'[1].user, response'[1].prompt)
                    /\ library' = library
      ]_vars

\* a POST that found no entry and lost the race for the INSERT has been
\* answered 200 with the entry the other request created
C18_Witness ==
    /\ response # <<>>
    /\ response[1].route = "user-prompts"
    /\ response[1].status = 200
    /\ response[1].entry \in library
    /\ response[1].entry.is_favorite
    /\ \E client \in 1..NumClients :
          /\ inflight[client].pc = "create"
          /\ SessionUser(client) = response[1].user
          /\ inflight[client].prompt = response[1].prompt
          /\ ~inflight[client].is_favorite

\* C19: the likes_count of every prompt template is the number of library
\* entries of that prompt with is_favorite true.
C19_LikesCountIsFavorites ==
    \A prompt \in DOMAIN prompts :
        prompts[prompt].exists =>
            prompts[prompt].likes_count = Favorites(library, prompt)

\* C20: of two password reset requests with a non-empty email, one for the
\* email of a user and one for an email of no user, the answers have the
\* same status and the same body.
C20_ResetAnswersAlike ==
    \A i, j \in DOMAIN response :
        (/\ response[i].email # ""
         /\ response[j].email # ""
         /\ response[i].registered
         /\ ~response[j].registered) =>
            /\ response[i].status = response[j].status
            /\ response[i].detail = response[j].detail
            /\ response[i].reset_url = response[j].reset_url

\* the step is a request for an avatar: no other step leaves the artworks
\* and the comments as they are and has this answer
AvatarRequested ==
    /\ artworks' = artworks
    /\ comments' = comments
    /\ response' # <<>>
    /\ response'[1].route = "generate_avatar"

\* the step is a POST of a comment
CommentPosted ==
    /\ artworks' = artworks
    /\ queue' = queue
    /\ response' # <<>>
    /\ response'[1].route = "comments"

\* a submission for which moderate_text reports blocked is answered 400 and
\* neither sends a task nor saves a comment
BlockedHasNoEffect ==
    ((AvatarRequested \/ CommentPosted)
        /\ response'[1].verdict = "blocked") =>
            /\ response'[1].status = 400
            /\ queue' = queue
            /\ comments' = comments

\* C21 as stated: blocked text has no effect, and a task is sent or a
\* comment saved only after a moderation verdict that is not blocked.
C21_OnlyAfterVerdict ==
    [][/\ BlockedHasNoEffect
       /\ (AvatarRequested /\ queue' # queue)
            => response'[1].verdict = "allowed"
       /\ (CommentPosted /\ comments' # comments)
            => response'[1].verdict = "allowed"
      ]_vars

\* C21: blocked text has no effect; a comment is saved only after a verdict
\* that is not blocked, and an avatar task is sent only after such a
\* verdict or after moderate_text raised.
C21_BlockedHasNoEffect ==
    [][/\ BlockedHasNoEffect
       /\ (AvatarRequested /\ queue' # queue)
            => response'[1].verdict \in {"allowed", "raises"}
       /\ (CommentPosted /\ comments' # comments)
            => response'[1].verdict = "allowed"
      ]_vars

\* a blocked comment has been answered 400 on an artwork that has a saved
\* comment, and an avatar task is in the queue
C21_Witness ==
    /\ response # <<>>
    /\ response[1].route = "comments"
    /\ response[1].verdict = "blocked"
    /\ response[1].status = 400
    /\ \E c \in comments : c.content = "a fox"
    /\ \A c \in comments : c.content # "damn"
    /\ \E m \in queue : m.task = "generate_avatar_for_user"

\* the request answered by the step asks for a username or an email that
\* another user has
AsksForTaken ==
    \/ /\ response'[1].username \notin
                {"", members[response'[1].user].username}
       /\ \E other \in DOMAIN members \ {response'[1].user} :
             members[other].username = response'[1].username
    \/ /\ response'[1].email \notin {"", members[response'[1].user].email}
       /\ \E other \in DOMAIN members \ {response'[1].user} :
             members[other].email = response'[1].email

\* C22: update_me answers a request for a username or an email of another
\* user with 400 and persists nothing of it: not the username, not the
\* email, no profile field, also when the other of the two is free.
C22_TakenLeavesUnchanged ==
    [][(response' # <<>> /\ AsksForTaken) =>
            /\ response'[1].status = 400
            /\ response'[1].error \in {"username", "email"}
            /\ members' = members
      ]_vars

\* a request with a free username, a taken email and a bio has been answered
\* 400 and the user is as before
C22_Witness ==
    /\ response # <<>>
    /\ response[1].user = "alice"
    /\ response[1].username = "carol"
    /\ response[1].email = "b@x.org"
    /\ response[1].data = "hi"
    /\ response[1].status = 400
    /\ members["bob"].email = "b@x.org"
    /\ members["alice"] = [username |-> "alice", email |-> "a@x.org",
                           bio |-> ""]

\* the calls of concentric_circles that returned an image
CircleCalls ==
    {c \in Returned :
        /\ c.pattern_type = "concentric_circles"
        /\ Get(c.params, "num_circles", 20) >= 0
        /\ c.size >= 0
        /\ c.result.ok}

\* the radius of the k-th circle painted
RadiusOf(img, k) == (img.ops[k].at[3] - img.ops[k].at[1]) \div 2

\* C23: concentric_circles paints exactly num_circles circles around the
\* centre, the first of radius min(width, height) // 2 and none larger than
\* the one before, so the colour of every pixel that a circle contains is
\* the colour of a smallest circle containing it, the one painted last.
C23_LargestToSmallest ==
    \A c \in CircleCalls :
        LET img == c.result.val
            num_circles == Get(c.params, "num_circles", 20)
        IN  /\ Len(img.ops) = num_circles
            /\ \A k \in DOMAIN img.ops :
                    /\ img.ops[k].kind = "ellipse"
                    /\ img.ops[k].at[1] + img.ops[k].at[3]
                            = 2 * (c.size \div 2)
                    /\ img.ops[k].at[2] + img.ops[k].at[4]
                            = 2 * (c.size \div 2)
            /\ num_circles >= 1 => RadiusOf(img, 1) = c.size \div 2
            /\ \A k \in 2..Len(img.ops) :
                    RadiusOf(img, k) <= RadiusOf(img, k - 1)
            /\ \A x \in 0..(c.size - 1), y \in 0..(c.size - 1) :
                    LET hits == {k \in DOMAIN img.ops :
                                    Covers(img.ops[k], x, y)}
                    IN  hits # {} =>
                            \E k \in hits :
                                /\ \A j \in hits :
                                        /\ RadiusOf(img, k) <= RadiusOf(img, j)
                                        /\ j <= k
                                /\ PixelAt(img, x, y) = img.ops[k].color

\* two circles of different radius and colour have been painted on the
\* largest canvas: the centre has the colour of the inner one, a pixel of
\* the outer ring the colour of the outer one
C23_Witness ==
    \E c \in CircleCalls :
        /\ c.size = MaxSize
        /\ Len(c.result.val.ops) = 2
        /\ RadiusOf(c.result.val, 2) < RadiusOf(c.result.val, 1)
        /\ c.result.val.ops[1].color # c.result.val.ops[2].color
        /\ PixelAt(c.result.val, c.size \div 2, c.size \div 2)
                = c.result.val.ops[2].color
        /\ PixelAt(c.result.val, c.size \div 2, 0)
                = c.result.val.ops[1].color

\* the first of the steps 1..max_iter of z <- z*z + c after which |z| > 2,
\* 0 if there is none; z is the value before the step
RECURSIVE FirstEscape(_, _, _, _, _, _)
FirstEscape(zr, zi, cr, ci, step, max_iter) ==
    LET nr == (zr * zr - zi * zi) \div FixedPoint + cr
        ni == (2 * zr * zi) \div FixedPoint + ci
    IN  IF step > max_iter THEN 0
        ELSE IF nr * nr + ni * ni > 4 * FixedPoint * FixedPoint THEN step
        ELSE FirstEscape(nr, ni, cr, ci, step + 1, max_iter)

\* the calls of mandelbrot_set that returned an image
MandelbrotCalls ==
    {c \in Returned :
        /\ c.pattern_type = "mandelbrot_set"
        /\ Get(c.params, "max_iter", 100) >= 1
        /\ c.size >= 1
        /\ c.result.ok}

\* C24: a pixel of mandelbrot_set is black exactly when its orbit has not
\* escaped after max_iter steps, and a pixel whose orbit escapes at step
\* 1..max_iter, the last step included, has the hue colour of that step.
C24_BlackIffNoEscape ==
    \A c \in MandelbrotCalls :
        \A k \in DOMAIN c.result.val.ops :
            LET op == c.result.val.ops[k]
                max_iter == Get(c.params, "max_iter", 100)
                real == ((10 * op.at[1] - 7 * c.size) * 2 * FixedPoint)
                            \div (5 * c.size)
                imag == ((2 * op.at[2] - c.size) * 2 * FixedPoint)
                            \div c.size
                escape == FirstEscape(0, 0, real, imag, 1, max_iter)
            IN  /\ (op.color = Rgb(0, 0, 0)) <=> (escape = 0)
                /\ escape # 0 => op.color = Hsv(escape, max_iter, 8, 9)

\* C25: recursive_tree, once the canvas has been made, returns for every
\* integer depth the dispatcher passes on, and for a depth d >= 0 it has
\* drawn 2^d - 1 segments.
C25_TreeTerminates ==
    \A c \in Returned :
        (/\ c.pattern_type = "recursive_tree"
         /\ c.size >= 1
         /\ c.result.ok \/ c.result.where = "_draw_branch") =>
            /\ c.result.ok
            /\ Get(c.params, "depth", 10) >= 0 =>
                    Len(c.result.val.ops) = 2 ^ Get(c.params, "depth", 10) - 1

\* the calls of random_walk that returned the image of a canvas with pixels
WalkCalls ==
    {c \in Returned :
        /\ c.pattern_type = "random_walk"
        /\ c.size >= 1
        /\ Get(c.params, "num_walkers", 5) >= 1
        /\ c.result.ok}

Distance(a, b) == IF a >= b THEN a - b ELSE b - a

\* C26: every walker of random_walk starts at the centre of the canvas;
\* each step moves one walker from where its last step left it, by at most
\* 2 in each coordinate, to a position inside the canvas.
C26_WalkersStayInside ==
    \A c \in WalkCalls :
        LET ops == c.result.val.ops
            num_walkers == Get(c.params, "num_walkers", 5)
        IN  \A k \in DOMAIN ops :
                /\ ops[k].kind = "line"
                /\ IF k <= num_walkers
                   THEN /\ ops[k].at[1] = c.size \div 2
                        /\ ops[k].at[2] = c.size \div 2
                   ELSE /\ ops[k].at[1] = ops[k - num_walkers].at[3]
                        /\ ops[k].at[2] = ops[k - num_walkers].at[4]
                /\ \A j \in 1..4 : ops[k].at[j] \in 0..(c.size - 1)
                /\ Distance(ops[k].at[3], ops[k].at[1]) <= 2
                /\ Distance(ops[k].at[4], ops[k].at[2]) <= 2

\* two walkers have made two steps each on the largest canvas; one of them
\* has been held at an edge and the other has moved in between
C26_Witness ==
    \E c \in WalkCalls :
        /\ c.size = MaxSize
        /\ Get(c.params, "num_walkers", 5) = 2
        /\ Len(c.result.val.ops) = 4
        /\ c.result.val.ops[3].at[1] = 0
        /\ c.result.val.ops[3].at[3] = 0
        /\ c.result.val.ops[2].at[3] # c.result.val.ops[2].at[1]

\* C27: every point sierpinski_triangle plots lies inside the canvas, for
\* every canvas with pixels and every start point.
C27_PointsInsideCanvas ==
    \A c \in Returned :
        (/\ c.pattern_type = "sierpinski_triangle"
         /\ c.size >= 1
         /\ c.result.ok) =>
            \A k \in DOMAIN c.result.val.ops :
                /\ c.result.val.ops[k].at[1] \in 0..(c.size - 1)
                /\ c.result.val.ops[k].at[2] \in 0..(c.size - 1)

\* an execution of generate_artwork comes to its end in this step
RunEnds ==
    /\ running # <<>>
    /\ running[1].pc = "processing"
    /\ running[1].msg.task = "generate_artwork"
    /\ running' # <<>>
    /\ running'[1].pc = "finished"

\* C28: an execution of generate_artwork that leaves the artwork completed
\* has produced and saved an image in that same execution and left
\* error_message empty; one that leaves it failed has stored the error text,
\* cut to at most 500 characters; and no other step makes an artwork
\* completed.
C28_CompletedHasImage ==
    [][/\ RunEnds =>
            LET id == running[1].msg.args[1]
            IN  /\ artworks'[id].exists /\ artworks'[id].status = "completed"
                    => /\ artworks'[id].image
                       /\ artworks'[id].error_message = ""
                       /\ artworks'[id].error_length = 0
                       /\ running'[1].outcome = Returned_("success", "")
                /\ artworks'[id].exists /\ artworks'[id].status = "failed"
                    => /\ artworks'[id].error_message # ""
                       /\ artworks'[id].error_message
                            = running'[1].outcome.message
                       /\ artworks'[id].error_length <= error_limit
       /\ \A id \in DOMAIN artworks \cap DOMAIN artworks' :
            (/\ artworks'[id].status = "completed"
             /\ artworks[id].status # "completed")
                => RunEnds /\ id = running[1].msg.args[1]
      ]_vars

\* C28 witness: an execution has just ended leaving the artwork failed with
\* a message that was cut to 500 characters
C28_Witness ==
    /\ running # <<>>
    /\ running[1].pc = "finished"
    /\ running[1].msg.task = "generate_artwork"
    /\ \E id \in DOMAIN artworks :
        /\ id = running[1].msg.args[1]
        /\ artworks[id].exists
        /\ artworks[id].status = "failed"
        /\ artworks[id].error_length = error_limit

\* an execution of generate_artwork that finds no row comes to its end in
\* this step
MissingEnds ==
    /\ running # <<>>
    /\ running[1].pc = "received"
    /\ running[1].msg.task = "generate_artwork"
    /\ running' # <<>>
    /\ running'[1].pc # "received"
    /\ ~(/\ running[1].msg.args[1] \in DOMAIN artworks
         /\ artworks[running[1].msg.args[1]].exists)

\* after this step the last attempt for the artwork has finished: no message
\* for it is left and nothing is running
Settled(id) ==
    /\ running' = <<>>
    /\ \A m \in queue' : ~(m.task = "generate_artwork" /\ m.args = <<id>>)

\* what holds of every step whatever the workers do: the final status of an
\* existing artwork, and the execution for a missing one
FinalStatusAndMissing ==
    /\ \A id \in DOMAIN artworks' :
            artworks'[id].exists /\ Settled(id)
                => artworks'[id].status \in {"completed", "failed"}
    /\ RunEnds /\ running'[1].outcome.kind # "retry"
            => LET id == running[1].msg.args[1]
               IN  artworks'[id].exists
                    => artworks'[id].status \in {"completed", "failed"}
    /\ MissingEnds
            => /\ running'[1].pc = "finished"
               /\ running'[1].outcome
                    = Returned_("error", "Artwork not found")
               /\ queue' = queue
               /\ artworks' = artworks

NoLikeRequest == \A client \in 1..NumClients : inflight[client].pc = "idle"

\* C30: whenever the like requests made so far have all ended, likes_count
\* is not negative and equals the number of ArtworkLike rows of the artwork,
\* and no user has more than one row for it.
C30_LikesCountIsRowCount ==
    NoLikeRequest
        => /\ likes.likes_count >= 0
           /\ likes.likes_count = RowCount(likes.rows)
           /\ \A user \in DOMAIN likes.rows : likes.rows[user] <= 1

====
